---- MODULE Spec2Model ----
(***************************************************************************)
(* State & scheduling core of the orchestrator                             *)
(* (src/scripts/core/state-manager.ts, schema in src/unnamed/part_000).    *)
(*                                                                         *)
(* The in-memory ProjectState object the driver holds is the variable      *)
(* `state`; the project document and the checkpoint snapshots on disk are  *)
(* `projectFile` and `checkpointFiles`.  Timestamps (new Date()) and the   *)
(* free-text fields (title, description, ...) are left out: no operation   *)
(* of the core branches on them.                                           *)
(***************************************************************************)
EXTENDS Integers, Sequences, FiniteSets, TLC

VARIABLES
    state,            \* the ProjectState object in memory
    projectFile,      \* .claude/orchestrator/state/project.json: <<document>>,
                      \* or << >> while the file does not exist
    checkpointFiles,  \* .claude/orchestrator/checkpoints/<id>.json: a function
                      \* from the ids that have a file to their documents
    ret,              \* the last call made by the driver and what it returned
    calls,            \* the number of calls the driver has made
    atCapture,        \* history variable: per checkpoint id, phase, task
                      \* statuses and history at the latest createCheckpoint
                      \* returning it
    tasksFile,        \* .claude/orchestrator/state/tasks.json: <<document>>,
                      \* or << >> while the file does not exist
    hookState         \* the post-task hook process: <<the document it has
                      \* loaded>> between its load and its save, << >> otherwise

vars == <<state, projectFile, checkpointFiles, ret, calls, atCapture,
          tasksFile, hookState>>

----------------------------------------------------------------------------
(* Bounds of the model *)

MaxTasks == 3          \* length of state.tasks
MaxCheckpoints == 2    \* length of state.checkpoints
MaxCalls == 5          \* calls in a run of Spec
MaxLifecycleCalls == 3 \* calls in a run of SpecLifecycle
MaxDriverCalls == 7    \* calls in a run of SpecDriver and SpecParallel
MaxPhaseCalls == 4     \* calls in a run of SpecPhase
MaxStorageCalls == 4   \* calls in a run of SpecStorage
MaxTaskFileCalls == 4  \* calls in a run of SpecTaskFile
MaxHookCalls == 5      \* calls in a run of SpecHook
MaxSessionCalls == 5   \* calls in a run of SpecSession
MaxPlanningCalls == 3  \* calls in a run of SpecPlanning

----------------------------------------------------------------------------
(* Values *)

Null == "null"              \* JavaScript null
Undefined == "undefined"    \* JavaScript undefined (an absent optional field)
Absent == "absent"          \* a key that is not in a JSON document
Now == "now"                \* new Date().toISOString(): some timestamp
Minutes == "minutes"        \* Math.round((end - start) / 60000): some number

Phase ==
    <<"ideation", "specification", "architecture", "planning",
      "implementation", "testing", "deployment", "complete">>

PhaseSet == {Phase[i] : i \in 1..Len(Phase)}

TaskStatus == {"pending", "in_progress", "completed", "blocked", "skipped"}

TaskPriority == {"critical", "high", "medium", "low"}

priorityOrder == [critical |-> 0, high |-> 1, medium |-> 2, low |-> 3]

DefaultMaxParallelTasks == 3

DefaultMaxRetries == 3

DefaultCheckpointFrequency == 5

DefaultConfig ==
    [autonomyLevel |-> "high",
     checkpointFrequency |-> DefaultCheckpointFrequency,
     autoCommit |-> TRUE,
     maxParallelTasks |-> DefaultMaxParallelTasks,
     maxRetries |-> DefaultMaxRetries]

\* The configurations a project starts with: the defaults written by
\* initialize, or a project.json whose config the user has edited.
Configs ==
    {DefaultConfig, [DefaultConfig EXCEPT !.maxParallelTasks = 1]}

----------------------------------------------------------------------------
(* Sequence helpers *)

Range(s) == {s[i] : i \in 1..Len(s)}

RECURSIVE SeqsUpTo(_, _)
SeqsUpTo(S, n) ==
    IF n = 0 THEN {<<>>}
    ELSE LET shorter == SeqsUpTo(S, n - 1)
         IN  shorter \cup {Append(s, x) : s \in {t \in shorter : Len(t) = n - 1}, x \in S}

\* tasks.filter((t) => t.status === status).length
countStatus(tasks, status) ==
    Cardinality({i \in 1..Len(tasks) : tasks[i].status = status})

\* Array.prototype.find on state.tasks by id: the index of the first match, 0 if none
FindTask(st, taskId) ==
    IF \E i \in 1..Len(st.tasks) : st.tasks[i].id = taskId
    THEN CHOOSE i \in 1..Len(st.tasks) :
            /\ st.tasks[i].id = taskId
            /\ \A j \in 1..(i - 1) : st.tasks[j].id # taskId
    ELSE 0

----------------------------------------------------------------------------
(* Progress Aggregator and History Ledger *)

\* Math.round(x / y * 100) for x >= 0, y > 0 (round half up)
RoundPercent(x, y) == (200 * x + y) \div (2 * y)

\* Mutant: the completed count is added to the one already stored
updateProgress_Accumulates(st) ==
    LET tasks == st.tasks
        total == Len(tasks)
        completed == st.progress.completed + countStatus(tasks, "completed")
    IN  [st EXCEPT !.progress =
            [total |-> total,
             completed |-> completed,
             inProgress |-> countStatus(tasks, "in_progress"),
             blocked |-> countStatus(tasks, "blocked"),
             skipped |-> countStatus(tasks, "skipped"),
             percentage |-> IF total > 0 THEN RoundPercent(completed, total) ELSE 0]]

updateProgress(st) ==
    LET tasks == st.tasks
        total == Len(tasks)
        completed == countStatus(tasks, "completed")
        inProgress == countStatus(tasks, "in_progress")
        blocked == countStatus(tasks, "blocked")
        skipped == countStatus(tasks, "skipped")
    IN  [st EXCEPT !.progress =
            [total |-> total,
             completed |-> completed,
             inProgress |-> inProgress,
             blocked |-> blocked,
             skipped |-> skipped,
             percentage |-> IF total > 0 THEN RoundPercent(completed, total) ELSE 0]]

\* Mutant: the log is capped, an append drops the oldest of three entries
addHistory_Capped(st, action, agent, taskId, details) ==
    LET entry == [action |-> action, agent |-> agent,
                  taskId |-> taskId, details |-> details]
    IN  [st EXCEPT !.history =
            IF Len(@) >= 3 THEN Append(Tail(@), entry) ELSE Append(@, entry)]

addHistory(st, action, agent, taskId, details) ==
    [st EXCEPT !.history =
        Append(@, [action |-> action, agent |-> agent,
                   taskId |-> taskId, details |-> details])]

----------------------------------------------------------------------------
(* Dependency & Scheduling Engine.  A task object is identified by its     *)
(* position in state.tasks; 0 stands for null.                             *)

\* Mutant: a dependency id that names no task counts as met
areDependenciesMet_MissingIsMet(st, task) ==
    \A depId \in task.dependencies :
        LET dep == FindTask(st, depId)
        IN  dep = 0 \/ st.tasks[dep].status = "completed"

\* Mutant: a dependency counts as met as soon as it has left pending
areDependenciesMet_Started(st, task) ==
    \A depId \in task.dependencies :
        LET dep == FindTask(st, depId)
        IN  ~(dep = 0 \/ st.tasks[dep].status = "pending")

\* Mutant: only a task without dependencies counts as ready
areDependenciesMet_OnlyWithout(st, task) ==
    task.dependencies = {}

areDependenciesMet(st, task) ==
    \A depId \in task.dependencies :
        LET dep == FindTask(st, depId)
        IN  ~(dep = 0 \/ st.tasks[dep].status # "completed")

\* Mutant: the loop over the selected tasks skips the first of them
hasFileConflict_SkipsFirst(st, selectedTasks, newTask) ==
    LET newOutputs == st.tasks[newTask].outputs
    IN  \E k \in 2..Len(selectedTasks) :
            \E output \in st.tasks[selectedTasks[k]].outputs : output \in newOutputs

hasFileConflict(st, selectedTasks, newTask) ==
    LET newOutputs == st.tasks[newTask].outputs
    IN  \E k \in 1..Len(selectedTasks) :
            \E output \in st.tasks[selectedTasks[k]].outputs : output \in newOutputs

\* Mutant: the filter lets a blocked task through as well
RECURSIVE filterPending_RetriesBlocked(_, _)
filterPending_RetriesBlocked(st, n) ==
    IF n = 0 THEN <<>>
    ELSE LET rest == filterPending_RetriesBlocked(st, n - 1)
         IN  IF /\ st.tasks[n].status \in {"pending", "blocked"}
                /\ areDependenciesMet(st, st.tasks[n])
             THEN Append(rest, n)
             ELSE rest

\* state.tasks.filter(t => t.status === 'pending' && areDependenciesMet(state, t))
RECURSIVE filterPending(_, _)
filterPending(st, n) ==
    IF n = 0 THEN <<>>
    ELSE LET rest == filterPending(st, n - 1)
         IN  IF st.tasks[n].status = "pending" /\ areDependenciesMet(st, st.tasks[n])
             THEN Append(rest, n)
             ELSE rest

pendingTasks(st) == filterPending(st, Len(st.tasks))

\* Array.prototype.sort with the comparator priorityOrder[a] - priorityOrder[b];
\* the sort is stable (ECMAScript 2019): an element goes behind every element
\* that does not compare greater.
\* Mutant: an unstable sort, equal priorities come out in reverse order
insertByPriority_Unstable(st, sorted, x) ==
    LET rank(i) == priorityOrder[st.tasks[i].priority]
        p == Cardinality({k \in 1..Len(sorted) : rank(sorted[k]) < rank(x)})
    IN  SubSeq(sorted, 1, p) \o <<x>> \o SubSeq(sorted, p + 1, Len(sorted))

insertByPriority(st, sorted, x) ==
    LET rank(i) == priorityOrder[st.tasks[i].priority]
        p == Cardinality({k \in 1..Len(sorted) : rank(sorted[k]) <= rank(x)})
    IN  SubSeq(sorted, 1, p) \o <<x>> \o SubSeq(sorted, p + 1, Len(sorted))

RECURSIVE sortByPriority(_, _)
sortByPriority(st, idxs) ==
    IF idxs = <<>> THEN <<>>
    ELSE insertByPriority(st,
             sortByPriority(st, SubSeq(idxs, 1, Len(idxs) - 1)),
             idxs[Len(idxs)])

\* Mutant: all pending tasks are sorted, and the first of them is returned
\* only when its dependencies are met
getNextTask_HeadOfLine(st) ==
    LET pending == SelectSeq([i \in 1..Len(st.tasks) |-> i],
                             LAMBDA i : st.tasks[i].status = "pending")
    IN  IF Len(pending) = 0 THEN 0
        ELSE LET first == sortByPriority(st, pending)[1]
             IN  IF areDependenciesMet(st, st.tasks[first]) THEN first ELSE 0

getNextTask(st) ==
    LET pending == pendingTasks(st)
    IN  IF Len(pending) = 0 THEN 0
        ELSE sortByPriority(st, pending)[1]

\* Mutant: the groups are visited latest agent first
RECURSIVE groupByAgent_Reversed(_, _)
groupByAgent_Reversed(st, idxs) ==
    IF idxs = <<>> THEN <<>>
    ELSE LET byAgent == groupByAgent_Reversed(st, SubSeq(idxs, 1, Len(idxs) - 1))
             task == idxs[Len(idxs)]
             agent == st.tasks[task].agent
         IN  IF \E g \in 1..Len(byAgent) : byAgent[g].agent = agent
             THEN [g \in 1..Len(byAgent) |->
                      IF byAgent[g].agent = agent
                      THEN [byAgent[g] EXCEPT !.tasks = Append(@, task)]
                      ELSE byAgent[g]]
             ELSE <<[agent |-> agent, tasks |-> <<task>>]>> \o byAgent

\* The Map byAgent, as the sequence of its entries in insertion order
RECURSIVE groupByAgent(_, _)
groupByAgent(st, idxs) ==
    IF idxs = <<>> THEN <<>>
    ELSE LET byAgent == groupByAgent(st, SubSeq(idxs, 1, Len(idxs) - 1))
             task == idxs[Len(idxs)]
             agent == st.tasks[task].agent
         IN  IF \E g \in 1..Len(byAgent) : byAgent[g].agent = agent
             THEN [g \in 1..Len(byAgent) |->
                      IF byAgent[g].agent = agent
                      THEN [byAgent[g] EXCEPT !.tasks = Append(@, task)]
                      ELSE byAgent[g]]
             ELSE Append(byAgent, [agent |-> agent, tasks |-> <<task>>])

\* The loop `for (const [, tasks] of byAgent)` from entry g on
RECURSIVE selectPerAgent(_, _, _, _, _)
selectPerAgent(st, byAgent, g, selected, maxTasks) ==
    IF g > Len(byAgent) \/ Len(selected) >= maxTasks THEN selected
    ELSE LET tasks == sortByPriority(st, byAgent[g].tasks)
             free == {k \in 1..Len(tasks) : ~hasFileConflict(st, selected, tasks[k])}
         IN  IF free = {}
             THEN selectPerAgent(st, byAgent, g + 1, selected, maxTasks)
             ELSE LET k == CHOOSE k \in free : \A j \in free : k <= j
                  IN  selectPerAgent(st, byAgent, g + 1,
                                     Append(selected, tasks[k]), maxTasks)

getParallelizableTasks(st, maxTasks) ==
    selectPerAgent(st, groupByAgent(st, pendingTasks(st)), 1, <<>>, maxTasks)

\* Mutant: state.tasks itself is sorted by priority before it is filtered
getNextTaskCall_SortsTasks(st) ==
    LET order == sortByPriority(st, [i \in 1..Len(st.tasks) |-> i])
        sorted == [st EXCEPT !.tasks = [k \in 1..Len(order) |-> st.tasks[order[k]]]]
    IN  [state |-> sorted, value |-> getNextTask(sorted)]

\* A call of getNextTask: the state it leaves behind and the task it
\* returns.  filter builds a new array, and it is that array which sort
\* reorders in place.
getNextTaskCall(st) ==
    [state |-> st, value |-> getNextTask(st)]

\* A call of getParallelizableTasks: the arrays pushed to and sorted in
\* place are the ones of the Map byAgent, built from the filtered array
getParallelizableTasksCall(st, maxTasks) ==
    [state |-> st, value |-> getParallelizableTasks(st, maxTasks)]

----------------------------------------------------------------------------
(* Task Lifecycle Manager.  Each operation yields the mutated state and    *)
(* the value it returns (the task's position, or Null).                    *)

\* Mutant: a lookup miss is written to the history before null is returned
startTask_MissLogged(st, taskId) ==
    LET task == FindTask(st, taskId)
    IN  IF task = 0
        THEN [state |-> addHistory(st, "task_started", Undefined, taskId,
                                   [attempt |-> 0]),
              value |-> Null]
        ELSE LET attempts == st.tasks[task].attempts + 1
                 s1 == [st EXCEPT !.tasks[task].status = "in_progress",
                                  !.tasks[task].startedAt = Now,
                                  !.tasks[task].attempts = attempts,
                                  !.currentTasks =
                                      Append(@, [id |-> taskId,
                                                 agent |-> st.tasks[task].agent,
                                                 attempt |-> attempts])]
                 s2 == updateProgress(s1)
             IN  [state |-> addHistory(s2, "task_started", st.tasks[task].agent,
                                       taskId, [attempt |-> attempts]),
                  value |-> task]

startTask(st, taskId) ==
    LET task == FindTask(st, taskId)
    IN  IF task = 0 THEN [state |-> st, value |-> Null]
        ELSE LET attempts == st.tasks[task].attempts + 1
                 s1 == [st EXCEPT !.tasks[task].status = "in_progress",
                                  !.tasks[task].startedAt = Now,
                                  !.tasks[task].attempts = attempts,
                                  !.currentTasks =
                                      Append(@, [id |-> taskId,
                                                 agent |-> st.tasks[task].agent,
                                                 attempt |-> attempts])]
                 s2 == updateProgress(s1)
             IN  [state |-> addHistory(s2, "task_started", st.tasks[task].agent,
                                       taskId, [attempt |-> attempts]),
                  value |-> task]

\* Mutant: every task that has the id is completed, not only the first
completeTask_AllMatches(st, taskId) ==
    LET task == FindTask(st, taskId)
    IN  IF task = 0 THEN [state |-> st, value |-> Null]
        ELSE LET s1 == [st EXCEPT
                           !.tasks = [i \in 1..Len(@) |->
                                         IF @[i].id = taskId
                                         THEN [@[i] EXCEPT !.status = "completed",
                                                           !.completedAt = Now,
                                                           !.error = Null]
                                         ELSE @[i]],
                           !.currentTasks =
                               SelectSeq(@, LAMBDA ct : ct.id # taskId)]
                 s2 == updateProgress(s1)
             IN  [state |-> addHistory(s2, "task_completed", st.tasks[task].agent,
                                       taskId, [actualMinutes |-> Undefined]),
                  value |-> task]

completeTask(st, taskId) ==
    LET task == FindTask(st, taskId)
    IN  IF task = 0 THEN [state |-> st, value |-> Null]
        ELSE LET actualMinutes == IF st.tasks[task].startedAt # Null
                                  THEN Minutes
                                  ELSE st.tasks[task].actualMinutes
                 s1 == [st EXCEPT !.tasks[task].status = "completed",
                                  !.tasks[task].completedAt = Now,
                                  !.tasks[task].error = Null,
                                  !.tasks[task].actualMinutes = actualMinutes,
                                  !.currentTasks =
                                      SelectSeq(@, LAMBDA ct : ct.id # taskId)]
                 s2 == updateProgress(s1)
             IN  [state |-> addHistory(s2, "task_completed", st.tasks[task].agent,
                                       taskId, [actualMinutes |-> actualMinutes]),
                  value |-> task]

\* Mutant: the attempt that reaches maxAttempts is retried once more
failTask_OffByOne(st, taskId, error) ==
    LET task == FindTask(st, taskId)
    IN  IF task = 0 THEN [state |-> st, value |-> Null]
        ELSE LET t == st.tasks[task]
                 s1 == IF t.attempts > t.maxAttempts
                       THEN [st EXCEPT !.tasks[task].error = error,
                                       !.tasks[task].status = "blocked",
                                       !.blockers =
                                           Append(@, [taskId |-> taskId,
                                                      reason |-> error,
                                                      attempts |-> t.attempts])]
                       ELSE [st EXCEPT !.tasks[task].error = error,
                                       !.tasks[task].status = "pending"]
                 s2 == [s1 EXCEPT !.currentTasks =
                                      SelectSeq(@, LAMBDA ct : ct.id # taskId)]
                 s3 == updateProgress(s2)
             IN  [state |-> addHistory(s3, "task_failed", t.agent, taskId,
                                       [error |-> error,
                                        attempt |-> t.attempts,
                                        willRetry |-> s3.tasks[task].status = "pending"]),
                  value |-> task]

\* Mutant: a Blocker is recorded at every failure, retried or not
failTask_AlwaysRecordsBlocker(st, taskId, error) ==
    LET task == FindTask(st, taskId)
    IN  IF task = 0 THEN [state |-> st, value |-> Null]
        ELSE LET t == st.tasks[task]
                 s1 == [st EXCEPT !.tasks[task].error = error,
                                  !.tasks[task].status =
                                      IF t.attempts >= t.maxAttempts
                                      THEN "blocked" ELSE "pending",
                                  !.blockers =
                                      Append(@, [taskId |-> taskId,
                                                 reason |-> error,
                                                 attempts |-> t.attempts])]
                 s2 == [s1 EXCEPT !.currentTasks =
                                      SelectSeq(@, LAMBDA ct : ct.id # taskId)]
                 s3 == updateProgress(s2)
             IN  [state |-> addHistory(s3, "task_failed", t.agent, taskId,
                                       [error |-> error,
                                        attempt |-> t.attempts,
                                        willRetry |-> s3.tasks[task].status = "pending"]),
                  value |-> task]

failTask(st, taskId, error) ==
    LET task == FindTask(st, taskId)
    IN  IF task = 0 THEN [state |-> st, value |-> Null]
        ELSE LET t == st.tasks[task]
                 s1 == IF t.attempts >= t.maxAttempts
                       THEN [st EXCEPT !.tasks[task].error = error,
                                       !.tasks[task].status = "blocked",
                                       !.blockers =
                                           Append(@, [taskId |-> taskId,
                                                      reason |-> error,
                                                      attempts |-> t.attempts])]
                       ELSE [st EXCEPT !.tasks[task].error = error,
                                       !.tasks[task].status = "pending"]
                 s2 == [s1 EXCEPT !.currentTasks =
                                      SelectSeq(@, LAMBDA ct : ct.id # taskId)]
                 s3 == updateProgress(s2)
             IN  [state |-> addHistory(s3, "task_failed", t.agent, taskId,
                                       [error |-> error,
                                        attempt |-> t.attempts,
                                        willRetry |-> s3.tasks[task].status = "pending"]),
                  value |-> task]

\* Mutant: the tasks are appended and progress is left as it was
addTasks_NoProgress(st, tasks) ==
    [st EXCEPT !.tasks = @ \o tasks]

addTasks(st, tasks) ==
    updateProgress([st EXCEPT !.tasks = @ \o tasks])

----------------------------------------------------------------------------
(* Schema & Validation, Persistence Adapter *)

\* JSON.stringify leaves out a key whose value is undefined
DropUndefined(v) == IF v = Undefined THEN Absent ELSE v

\* z.<type>().optional(): a key that is not there parses to undefined
ParseOptional(v) == IF v = Absent THEN Undefined ELSE v

StringifyHistoryEntry(e) ==
    [action |-> e.action,
     agent |-> DropUndefined(e.agent),
     taskId |-> DropUndefined(e.taskId),
     details |-> IF e.action = "task_completed"
                 THEN [actualMinutes |-> DropUndefined(e.details.actualMinutes)]
                 ELSE e.details]

ParseHistoryEntry(e) ==
    [e EXCEPT !.agent = ParseOptional(@), !.taskId = ParseOptional(@)]

JSONStringify(st) ==
    [st EXCEPT
        !.tasks = [i \in 1..Len(@) |->
                      [@[i] EXCEPT !.actualMinutes = DropUndefined(@)]],
        !.checkpoints = [i \in 1..Len(@) |->
                            [@[i] EXCEPT !.gitCommit = DropUndefined(@),
                                         !.description = DropUndefined(@)]],
        !.history = [i \in 1..Len(@) |-> StringifyHistoryEntry(@[i])]]

TaskSchemaOk(t) ==
    /\ t.status \in TaskStatus
    /\ t.priority \in TaskPriority
    /\ t.attempts \in Int
    /\ t.maxAttempts \in Int
    /\ t.actualMinutes \in {Absent, Minutes}

\* ProjectStateSchema accepts the document
SchemaOk(doc) ==
    /\ doc.phase \in PhaseSet
    /\ DOMAIN doc.phases \subseteq PhaseSet
    /\ \A p \in DOMAIN doc.phases :
          doc.phases[p].status \in {"pending", "in_progress", "complete", "skipped"}
    /\ \A i \in 1..Len(doc.tasks) : TaskSchemaOk(doc.tasks[i])
    /\ \A i \in 1..Len(doc.checkpoints) : doc.checkpoints[i].phase \in PhaseSet

\* z.object() drops the keys that the schema does not name; the one such key
\* a project.json may hold here is the session status
StripUnknownKeys(doc) ==
    IF "status" \in DOMAIN doc
    THEN [k \in DOMAIN doc \ {"status"} |-> doc[k]]
    ELSE doc

\* ProjectStateSchema.parse of a document that the schema accepts
SchemaParse(doc) ==
    [StripUnknownKeys(doc) EXCEPT
        !.tasks = [i \in 1..Len(@) |->
                      [@[i] EXCEPT !.actualMinutes = ParseOptional(@)]],
        !.checkpoints = [i \in 1..Len(@) |->
                            [@[i] EXCEPT !.gitCommit = ParseOptional(@),
                                         !.description = ParseOptional(@)]],
        !.history = [i \in 1..Len(@) |-> ParseHistoryEntry(@[i])]]

\* Mutant: the parsed JSON is returned as it is, without validation
load_Unvalidated(file) ==
    IF file = <<>> THEN [error |-> "NotFound", state |-> Null]
    ELSE [error |-> Null, state |-> SchemaParse(file[1])]

\* load(): the state parsed from project.json, or the error thrown
load(file) ==
    IF file = <<>> THEN [error |-> "NotFound", state |-> Null]
    ELSE IF ~SchemaOk(file[1]) THEN [error |-> "ValidationError", state |-> Null]
    ELSE [error |-> Null, state |-> SchemaParse(file[1])]

\* Mutant: the document is written without having been validated
save_Unvalidated(st) ==
    [ok |-> TRUE, file |-> <<JSONStringify(st)>>]

\* save(state): the document written to project.json, or a ValidationError
save(st) ==
    LET doc == JSONStringify(st)
    IN  IF SchemaOk(doc)
        THEN [ok |-> TRUE, file |-> <<JSONStringify(SchemaParse(doc))>>]
        ELSE [ok |-> FALSE, file |-> <<>>]

initialize(config) ==
    [phase |-> "ideation",
     phases |-> [p \in PhaseSet |->
                    IF p = "ideation"
                    THEN [status |-> "in_progress", startedAt |-> Now, completedAt |-> Null]
                    ELSE [status |-> "pending", startedAt |-> Null, completedAt |-> Null]],
     tasks |-> <<>>,
     currentTasks |-> <<>>,
     progress |-> [total |-> 0, completed |-> 0, inProgress |-> 0,
                   blocked |-> 0, skipped |-> 0, percentage |-> 0],
     blockers |-> <<>>,
     decisions |-> <<>>,
     checkpoints |-> <<>>,
     history |-> <<[action |-> "project_initialized", agent |-> Undefined,
                    taskId |-> Undefined, details |-> [name |-> "name"]]>>,
     config |-> config]

----------------------------------------------------------------------------
(* Phase State Machine *)

\* Mutant: the current phase is left in progress when the target is started
transitionPhase_KeepsCurrent(st, newPhase) ==
    LET currentPhase == st.phase
        s2 == IF newPhase \in DOMAIN st.phases
              THEN [st EXCEPT !.phase = newPhase,
                              !.phases[newPhase].status = "in_progress",
                              !.phases[newPhase].startedAt = Now]
              ELSE [st EXCEPT !.phase = newPhase]
    IN  addHistory(s2, "phase_transition", Undefined, Undefined,
                   [from |-> currentPhase, to |-> newPhase])

\* Mutant: the target phase is started before the current one is completed
transitionPhase_StartThenComplete(st, newPhase) ==
    LET currentPhase == st.phase
        s1 == IF newPhase \in DOMAIN st.phases
              THEN [st EXCEPT !.phase = newPhase,
                              !.phases[newPhase].status = "in_progress",
                              !.phases[newPhase].startedAt = Now]
              ELSE [st EXCEPT !.phase = newPhase]
        s2 == IF currentPhase \in DOMAIN s1.phases
              THEN [s1 EXCEPT !.phases[currentPhase].status = "complete",
                              !.phases[currentPhase].completedAt = Now]
              ELSE s1
    IN  addHistory(s2, "phase_transition", Undefined, Undefined,
                   [from |-> currentPhase, to |-> newPhase])

\* `if (state.phases[p])` is true exactly when the map has the key p: every
\* entry is an object
transitionPhase(st, newPhase) ==
    LET currentPhase == st.phase
        s1 == IF currentPhase \in DOMAIN st.phases
              THEN [st EXCEPT !.phases[currentPhase].status = "complete",
                              !.phases[currentPhase].completedAt = Now]
              ELSE st
        s2 == IF newPhase \in DOMAIN s1.phases
              THEN [s1 EXCEPT !.phase = newPhase,
                              !.phases[newPhase].status = "in_progress",
                              !.phases[newPhase].startedAt = Now]
              ELSE [s1 EXCEPT !.phase = newPhase]
    IN  addHistory(s2, "phase_transition", Undefined, Undefined,
                   [from |-> currentPhase, to |-> newPhase])

----------------------------------------------------------------------------
(* Decisions *)

\* String(n).padStart(3, '0') as its digits, for n < 1000
PadStart3(n) == <<n \div 100, (n \div 10) % 10, n % 10>>

DecisionId(n) == <<"DEC-">> \o PadStart3(n)

addDecision(st, topic, decision, decidedBy) ==
    LET record == [id |-> DecisionId(Len(st.decisions) + 1),
                   topic |-> topic,
                   decision |-> decision,
                   decidedBy |-> decidedBy]
        s1 == [st EXCEPT !.decisions = Append(@, record)]
    IN  addHistory(s1, "decision_made", decidedBy, Undefined,
                   [topic |-> topic, decision |-> decision])

----------------------------------------------------------------------------
(* Checkpoint Manager *)

CheckpointId(n) == <<"CP-">> \o PadStart3(n)

\* The ids the driver hands to restoreCheckpoint; the last one is never written
CheckpointIds == {CheckpointId(n) : n \in 1..(MaxCheckpoints + 1)}

\* writeFileSync(<name>.json, document): creates or overwrites
WriteFile(files, name, document) ==
    [n \in DOMAIN files \cup {name} |-> IF n = name THEN document ELSE files[n]]

\* The new state, the snapshot written to <id>.json and the Checkpoint returned
createCheckpoint(st, gitCommit) ==
    LET checkpoint == [id |-> CheckpointId(Len(st.checkpoints) + 1),
                       phase |-> st.phase,
                       tasksCompleted |-> st.progress.completed,
                       gitCommit |-> gitCommit,
                       description |-> Undefined]
        s1 == [st EXCEPT !.checkpoints = Append(@, checkpoint)]
    IN  [state |-> addHistory(s1, "checkpoint_created", Undefined, Undefined,
                              [checkpointId |-> checkpoint.id,
                               tasksCompleted |-> checkpoint.tasksCompleted]),
         file |-> JSONStringify(s1),
         value |-> checkpoint]

\* Mutant: the newest snapshot is read, whatever id is asked for
restoreCheckpoint_Newest(files, checkpointId) ==
    IF checkpointId \notin DOMAIN files
    THEN [error |-> "NotFound", state |-> Null, file |-> <<>>]
    ELSE LET newest == CHOOSE id \in DOMAIN files :
                           \A other \in DOMAIN files : other[4] <= id[4]
             st == addHistory(SchemaParse(files[newest]),
                              "checkpoint_restored", Undefined, Undefined,
                              [checkpointId |-> checkpointId])
         IN  [error |-> Null, state |-> st, file |-> save(st).file]

\* Mutant: the snapshot is copied to project.json before it is validated
restoreCheckpoint_CopiesFirst(files, checkpointId) ==
    IF checkpointId \notin DOMAIN files
    THEN [error |-> "NotFound", state |-> Null, file |-> <<>>]
    ELSE LET st == addHistory(SchemaParse(files[checkpointId]),
                              "checkpoint_restored", Undefined, Undefined,
                              [checkpointId |-> checkpointId])
         IN  [error |-> Null, state |-> st, file |-> <<JSONStringify(st)>>]

\* Mutant: the restored state is saved before the restoration is logged
restoreCheckpoint_LogsAfterSave(files, checkpointId) ==
    IF checkpointId \notin DOMAIN files
    THEN [error |-> "NotFound", state |-> Null, file |-> <<>>]
    ELSE IF ~SchemaOk(files[checkpointId])
    THEN [error |-> "ValidationError", state |-> Null, file |-> <<>>]
    ELSE LET parsed == SchemaParse(files[checkpointId])
             saved == save(parsed)
         IN  [error |-> Null,
              state |-> addHistory(parsed, "checkpoint_restored", Undefined,
                                   Undefined, [checkpointId |-> checkpointId]),
              file |-> saved.file]

\* The state returned and the document saved, or the error thrown
restoreCheckpoint(files, checkpointId) ==
    IF checkpointId \notin DOMAIN files
    THEN [error |-> "NotFound", state |-> Null, file |-> <<>>]
    ELSE IF ~SchemaOk(files[checkpointId])
    THEN [error |-> "ValidationError", state |-> Null, file |-> <<>>]
    ELSE LET st == addHistory(SchemaParse(files[checkpointId]),
                              "checkpoint_restored", Undefined, Undefined,
                              [checkpointId |-> checkpointId])
             saved == save(st)
         IN  IF saved.ok
             THEN [error |-> Null, state |-> st, file |-> saved.file]
             ELSE [error |-> "ValidationError", state |-> Null, file |-> <<>>]

\* state.config?.checkpointFrequency || 5: undefined (a state without
\* config) and 0 are falsy
checkpointFrequencyOrFive(st) ==
    IF "config" \notin DOMAIN st THEN 5
    ELSE IF st.config.checkpointFrequency = 0 THEN 5
    ELSE st.config.checkpointFrequency

shouldCheckpoint(st) ==
    LET freq == checkpointFrequencyOrFive(st)
        tasksSinceCheckpoint ==
            IF Len(st.checkpoints) > 0
            THEN st.progress.completed - st.checkpoints[Len(st.checkpoints)].tasksCompleted
            ELSE st.progress.completed
    IN  tasksSinceCheckpoint >= freq

----------------------------------------------------------------------------
(* The post-task hook (src/unnamed/part_003), a process of its own that    *)
(* works on the parsed JSON of project.json without the schema             *)

postTaskUpdateProgress(doc) ==
    LET tasks == doc.tasks
        total == Len(tasks)
        completed == Cardinality({i \in 1..Len(tasks) : tasks[i].status = "completed"})
        inProgress == Cardinality({i \in 1..Len(tasks) : tasks[i].status = "in_progress"})
        blocked == Cardinality({i \in 1..Len(tasks) : tasks[i].status = "blocked"})
        skipped == Cardinality({i \in 1..Len(tasks) : tasks[i].status = "skipped"})
    IN  [doc EXCEPT !.progress =
            [total |-> total,
             completed |-> completed,
             inProgress |-> inProgress,
             blocked |-> blocked,
             skipped |-> skipped,
             percentage |-> IF total > 0 THEN RoundPercent(completed, total) ELSE 0]]

\* Mutant: a checkpoint is recommended only above the frequency
postTaskCheckpointNeeded_Above(doc) ==
    LET checkpointFreq == checkpointFrequencyOrFive(doc)
        tasksSinceCheckpoint ==
            IF Len(doc.checkpoints) > 0
            THEN doc.progress.completed - doc.checkpoints[Len(doc.checkpoints)].tasksCompleted
            ELSE doc.progress.completed
    IN  tasksSinceCheckpoint > checkpointFreq

\* tasksSinceCheckpoint >= checkpointFreq in main
postTaskCheckpointNeeded(doc) ==
    LET checkpointFreq == checkpointFrequencyOrFive(doc)
        tasksSinceCheckpoint ==
            IF Len(doc.checkpoints) > 0
            THEN doc.progress.completed - doc.checkpoints[Len(doc.checkpoints)].tasksCompleted
            ELSE doc.progress.completed
    IN  tasksSinceCheckpoint >= checkpointFreq

\* main(), from the loaded document to the document it saves and whether
\* it prints "Checkpoint recommended"
postTaskMain(doc) ==
    LET s1 == postTaskUpdateProgress(doc)
        s2 == [s1 EXCEPT !.history =
                  Append(@, [action |-> "task_delegation_completed",
                             agent |-> Absent, taskId |-> Absent,
                             details |-> [progress |-> s1.progress]])]
    IN  [doc |-> s2, recommended |-> postTaskCheckpointNeeded(s2)]

\* Mutant: entries that project.json has gained since the load are kept
saveState_KeepsNewerEntries(doc) ==
    IF projectFile # <<>> /\ Len(projectFile[1].history) >= Len(doc.history)
    THEN <<[doc EXCEPT !.history =
               projectFile[1].history \o <<doc.history[Len(doc.history)]>>]>>
    ELSE <<doc>>

\* saveState(state): writeFileSync of the whole document
saveState(doc) == <<doc>>

----------------------------------------------------------------------------
(* The stop hook (src/unnamed/part_001), run when a session ends; like the  *)
(* post-task hook it works on the parsed JSON without the schema           *)

\* `cp-${Date.now()}`
StopCheckpointId == <<"cp-", Now>>

\* createCheckpoint(state) of the stop hook: the snapshot it writes and the
\* document with the reference {id, timestamp, tasksCompleted} pushed; the
\* reference has no phase, no gitCommit and no description
stopCreateCheckpoint(doc) ==
    LET checkpoint == [id |-> StopCheckpointId,
                       phase |-> doc.phase,
                       tasksCompleted |-> doc.progress.completed,
                       state |-> doc]
    IN  [file |-> checkpoint,
         doc |-> [doc EXCEPT !.checkpoints =
                     Append(@, [id |-> StopCheckpointId,
                                phase |-> Absent,
                                tasksCompleted |-> checkpoint.tasksCompleted,
                                gitCommit |-> Absent,
                                description |-> Absent])]]

\* state.status !== 'running' && state.status !== 'paused'
sessionActive(doc) ==
    IF "status" \in DOMAIN doc THEN doc.status \in {"running", "paused"} ELSE FALSE

\* main() of the stop hook on the loaded document of an active session: the
\* snapshot written and the document saved
stopMain(doc) ==
    LET s1 == [doc EXCEPT !.status = "stopped"]
        s2 == [s1 EXCEPT !.history =
                  Append(@, [action |-> "session_stopped",
                             agent |-> Absent, taskId |-> Absent,
                             details |-> [phase |-> s1.phase,
                                          progress |-> s1.progress]])]
        r == stopCreateCheckpoint(s2)
    IN  [checkpoint |-> r.file, doc |-> r.doc]

----------------------------------------------------------------------------
(* Inputs *)

\* A task as TaskSchema parses it from a plan: attempts 0, no timestamps, no error
NewTask(id, status, priority, agent, dependencies, outputs, maxAttempts) ==
    [id |-> id, status |-> status, priority |-> priority, agent |-> agent,
     dependencies |-> dependencies, outputs |-> outputs,
     attempts |-> 0, maxAttempts |-> maxAttempts,
     startedAt |-> Null, completedAt |-> Null,
     actualMinutes |-> Undefined, error |-> Null]

\* The tasks handed to addTasks.  "T9" is the id of no task.
TaskPool ==
    {NewTask("T1", "pending", "high", "backend-dev", {}, {"src/app.ts"}, 3),
     NewTask("T2", "pending", "critical", "frontend-dev", {"T1"}, {"src/app.ts"}, 1),
     NewTask("T3", "pending", "high", "frontend-dev", {}, {"src/app.ts"}, 1),
     NewTask("T3", "pending", "high", "backend-dev", {}, {"src/db.ts"}, 2),
     NewTask("T2", "pending", "low", "test-engineer", {"T9"}, {}, 1),
     NewTask("T1", "skipped", "medium", "test-engineer", {}, {"src/ui.ts"}, 1)}

TaskIds == {"T1", "T2", "T3", "T9"}

\* The arrays handed to addTasks: no, one or two tasks
TaskBatches == SeqsUpTo(TaskPool, 2)

\* A small plan for the runs that are about phases and checkpoints
PlanPool ==
    {NewTask("T1", "pending", "high", "backend-dev", {}, {"src/app.ts"}, 2),
     NewTask("T2", "pending", "critical", "frontend-dev", {"T1"}, {"src/app.ts"}, 1)}

PlanIds == {"T1", "T2"}

\* Targets handed to transitionPhase: the first phase and the one after it
PhaseTargets == {"ideation", "specification"}

Errors == {"boom"}

GitCommits == {Undefined}

\* Topics of the decisions handed to addDecision
Topics == {"database"}

----------------------------------------------------------------------------
(* The state after initialize() *)

InitWith(config) ==
    /\ state = initialize(config)
    /\ projectFile = save(initialize(config)).file
    /\ checkpointFiles = [id \in {} |-> <<>>]
    /\ ret = [op |-> "initialize", arg |-> Undefined, value |-> Undefined]
    /\ calls = 0
    /\ atCapture = [id \in {} |-> <<>>]
    /\ tasksFile = <<>>
    /\ hookState = <<>>

Init == InitWith(DefaultConfig)

\* A project whose config the user has edited in project.json
InitConfigured == \E config \in Configs : InitWith(config)

----------------------------------------------------------------------------
(* The operations of the core, one action each *)

AddTasks(tasks) ==
    /\ Len(state.tasks) + Len(tasks) <= MaxTasks
    /\ state' = addTasks(state, tasks)
    /\ ret' = [op |-> "addTasks", arg |-> Len(tasks), value |-> Undefined]
    /\ calls' = calls + 1
    /\ UNCHANGED <<projectFile, checkpointFiles, atCapture, tasksFile, hookState>>

StartTask(taskId) ==
    /\ state' = startTask(state, taskId).state
    /\ ret' = [op |-> "startTask", arg |-> taskId,
               value |-> startTask(state, taskId).value]
    /\ calls' = calls + 1
    /\ UNCHANGED <<projectFile, checkpointFiles, atCapture, tasksFile, hookState>>

CompleteTask(taskId) ==
    /\ state' = completeTask(state, taskId).state
    /\ ret' = [op |-> "completeTask", arg |-> taskId,
               value |-> completeTask(state, taskId).value]
    /\ calls' = calls + 1
    /\ UNCHANGED <<projectFile, checkpointFiles, atCapture, tasksFile, hookState>>

FailTask(taskId, error) ==
    /\ state' = failTask(state, taskId, error).state
    /\ ret' = [op |-> "failTask", arg |-> taskId,
               value |-> failTask(state, taskId, error).value]
    /\ calls' = calls + 1
    /\ UNCHANGED <<projectFile, checkpointFiles, atCapture, tasksFile, hookState>>

TransitionPhase(newPhase) ==
    /\ state' = transitionPhase(state, newPhase)
    /\ ret' = [op |-> "transitionPhase", arg |-> newPhase, value |-> Undefined]
    /\ calls' = calls + 1
    /\ UNCHANGED <<projectFile, checkpointFiles, atCapture, tasksFile, hookState>>

CreateCheckpoint(gitCommit) ==
    LET r == createCheckpoint(state, gitCommit)
    IN  /\ Len(state.checkpoints) < MaxCheckpoints
        /\ state' = r.state
        /\ checkpointFiles' = WriteFile(checkpointFiles, r.value.id, r.file)
        /\ ret' = [op |-> "createCheckpoint", arg |-> gitCommit, value |-> r.value.id]
        /\ atCapture' = WriteFile(atCapture, r.value.id,
                            [phase |-> state.phase,
                             statuses |-> [i \in 1..Len(state.tasks) |->
                                              state.tasks[i].status],
                             history |-> state.history])
        /\ calls' = calls + 1
        /\ UNCHANGED <<projectFile, tasksFile, hookState>>

AddDecision(topic, decision, decidedBy) ==
    /\ state' = addDecision(state, topic, decision, decidedBy)
    /\ ret' = [op |-> "addDecision", arg |-> topic,
               value |-> DecisionId(Len(state.decisions) + 1)]
    /\ calls' = calls + 1
    /\ UNCHANGED <<projectFile, checkpointFiles, atCapture, tasksFile, hookState>>

\* A restore that throws leaves the caller with the state it had
RestoreCheckpoint(checkpointId) ==
    LET r == restoreCheckpoint(checkpointFiles, checkpointId)
    IN  /\ ret' = [op |-> "restoreCheckpoint", arg |-> checkpointId,
                   value |-> IF r.error = Null THEN "state" ELSE r.error]
        /\ state' = IF r.error = Null THEN r.state ELSE state
        /\ projectFile' = IF r.error = Null THEN r.file ELSE projectFile
        /\ calls' = calls + 1
        /\ UNCHANGED <<checkpointFiles, atCapture, tasksFile, hookState>>

----------------------------------------------------------------------------
(* The whole core under a caller that may call anything, on a small plan *)

Next ==
    \/ calls < MaxCalls /\ \E task \in PlanPool : AddTasks(<<task>>)
    \/ calls < MaxCalls /\ \E taskId \in PlanIds : StartTask(taskId)
    \/ calls < MaxCalls /\ \E taskId \in PlanIds : CompleteTask(taskId)
    \/ calls < MaxCalls /\ \E taskId \in PlanIds, error \in Errors : FailTask(taskId, error)
    \/ calls < MaxCalls /\ \E newPhase \in PhaseTargets : TransitionPhase(newPhase)
    \/ calls < MaxCalls /\ \E gitCommit \in GitCommits : CreateCheckpoint(gitCommit)
    \/ calls < MaxCalls /\ \E checkpointId \in CheckpointIds : RestoreCheckpoint(checkpointId)
    \/ calls < MaxCalls /\ \E topic \in Topics : AddDecision(topic, "yes", "architect")

Spec == Init /\ [][Next]_vars

----------------------------------------------------------------------------
(* The task operations alone, called with any id in any order *)

NextLifecycle ==
    \/ calls < MaxLifecycleCalls /\ \E tasks \in TaskBatches : AddTasks(tasks)
    \/ calls < MaxLifecycleCalls /\ \E taskId \in TaskIds : StartTask(taskId)
    \/ calls < MaxLifecycleCalls /\ \E taskId \in TaskIds : CompleteTask(taskId)
    \/ calls < MaxLifecycleCalls /\ \E taskId \in TaskIds, error \in Errors : FailTask(taskId, error)

SpecLifecycle == Init /\ [][NextLifecycle]_vars

----------------------------------------------------------------------------
(* The driver loop of the orchestrator agent: plans have unique task ids,  *)
(* a task is started only when the scheduling engine returned it, and only *)
(* a task in progress is completed or failed.                              *)

UsedIds == {state.tasks[i].id : i \in 1..Len(state.tasks)}

PlannedBatch(tasks) ==
    /\ \A i \in 1..Len(tasks) :
          /\ tasks[i].status = "pending"
          /\ tasks[i].id \notin UsedIds
    /\ \A i, j \in 1..Len(tasks) : tasks[i].id = tasks[j].id => i = j

\* for (const task of batch) startTask(state, task.id)
RECURSIVE startEach(_, _)
startEach(st, taskIds) ==
    IF taskIds = <<>> THEN st
    ELSE startEach(startTask(st, taskIds[1]).state,
                   SubSeq(taskIds, 2, Len(taskIds)))

DriverAddTasks ==
    \E tasks \in TaskBatches :
        /\ tasks # <<>>
        /\ PlannedBatch(tasks)
        /\ AddTasks(tasks)

DriverStartNext ==
    LET task == getNextTask(state)
    IN  /\ task # 0
        /\ StartTask(state.tasks[task].id)

DriverStartBatch ==
    LET batch == getParallelizableTasks(state, state.config.maxParallelTasks)
    IN  /\ batch # <<>>
        /\ state' = startEach(state, [k \in 1..Len(batch) |-> state.tasks[batch[k]].id])
        /\ ret' = [op |-> "startTask", arg |-> state.tasks[batch[Len(batch)]].id,
                   value |-> batch[Len(batch)]]
        /\ calls' = calls + 1
        /\ UNCHANGED <<projectFile, checkpointFiles, atCapture, tasksFile, hookState>>

DriverCompleteTask ==
    \E i \in 1..Len(state.tasks) :
        /\ state.tasks[i].status = "in_progress"
        /\ CompleteTask(state.tasks[i].id)

DriverFailTask ==
    \E i \in 1..Len(state.tasks), error \in Errors :
        /\ state.tasks[i].status = "in_progress"
        /\ FailTask(state.tasks[i].id, error)

NextDriver ==
    \/ calls < MaxDriverCalls /\ DriverAddTasks
    \/ calls < MaxDriverCalls /\ DriverStartNext
    \/ calls < MaxDriverCalls /\ DriverStartBatch
    \/ calls < MaxDriverCalls /\ DriverCompleteTask
    \/ calls < MaxDriverCalls /\ DriverFailTask

SpecDriver == Init /\ [][NextDriver]_vars

\* The driver that takes its work from getParallelizableTasks alone
NextParallel ==
    \/ calls < MaxDriverCalls /\ DriverAddTasks
    \/ calls < MaxDriverCalls /\ DriverStartBatch
    \/ calls < MaxDriverCalls /\ DriverCompleteTask
    \/ calls < MaxDriverCalls /\ DriverFailTask

SpecParallel == InitConfigured /\ [][NextParallel]_vars

----------------------------------------------------------------------------
(* Properties of the scheduling engine and of progress (SpecLifecycle) *)

Tasks == state.tasks

TaskIdx == 1..Len(state.tasks)

Rank(i) == priorityOrder[state.tasks[i].priority]

\* Eligible: pending, and every dependency id resolves to a completed task
Eligible(i) ==
    /\ Tasks[i].status = "pending"
    /\ \A depId \in Tasks[i].dependencies :
          /\ FindTask(state, depId) # 0
          /\ Tasks[FindTask(state, depId)].status = "completed"

EligibleSet == {i \in TaskIdx : Eligible(i)}

\* C1: whenever getNextTask returns a task, the task is pending and each of
\* its dependency ids names a task of the collection that is completed; a
\* task with a dependency id that names no task is never returned, and the
\* call yields a task or null (no error) in every reachable state.
C1_NextTaskDependenciesCompleted ==
    LET t == getNextTask(state)
    IN  /\ t \in 0..Len(Tasks)
        /\ t # 0 =>
              /\ Tasks[t].status = "pending"
              /\ \A depId \in Tasks[t].dependencies :
                    \E i \in TaskIdx : Tasks[i].id = depId /\ Tasks[i].status = "completed"
        /\ \A i \in TaskIdx :
              (\E depId \in Tasks[i].dependencies :
                  \A j \in TaskIdx : Tasks[j].id # depId) => t # i

\* A task with dependencies is returned after its dependency was completed,
\* while another pending task waits on an id that names no task.
C1_Witness ==
    LET t == getNextTask(state)
    IN  /\ t # 0
        /\ Tasks[t].dependencies # {}
        /\ \E i \in TaskIdx : Tasks[i].status = "pending" /\ "T9" \in Tasks[i].dependencies

BatchSizes == -1..(MaxTasks + 1)

\* C2: for every maxTasks n >= 0, getParallelizableTasks returns at most n
\* tasks, all of them pending with all dependencies completed, and no output
\* identifier belongs to two different returned tasks.
C2_ParallelBatchBoundedConflictFree ==
    \A n \in 0..(MaxTasks + 1) :
        LET selected == getParallelizableTasks(state, n)
        IN  /\ Len(selected) <= n
            /\ \A k \in 1..Len(selected) :
                  /\ selected[k] \in TaskIdx
                  /\ Tasks[selected[k]].status = "pending"
                  /\ \A depId \in Tasks[selected[k]].dependencies :
                        \E i \in TaskIdx :
                            Tasks[i].id = depId /\ Tasks[i].status = "completed"
            /\ \A k, l \in 1..Len(selected) :
                  k # l =>
                      /\ selected[k] # selected[l]
                      /\ Tasks[selected[k]].outputs \cap Tasks[selected[l]].outputs = {}

\* Three tasks are eligible, two of them write the same file, and a batch of
\* two is returned; with maxTasks = 1 only one of them is.
C2_Witness ==
    /\ Cardinality(EligibleSet) = 3
    /\ \E i, j \in EligibleSet : i # j /\ Tasks[i].outputs \cap Tasks[j].outputs # {}
    /\ Len(getParallelizableTasks(state, 3)) = 2
    /\ Len(getParallelizableTasks(state, 1)) = 1

StatusCount(status) == Cardinality({i \in TaskIdx : Tasks[i].status = status})

\* C3: after any sequence of addTasks/startTask/completeTask/failTask calls,
\* progress.total is the number of tasks, each of completed, inProgress,
\* blocked and skipped is the number of tasks of that status, and their sum
\* is at most total.
C3_ProgressCountsTasks ==
    LET p == state.progress
    IN  /\ p.total = Len(Tasks)
        /\ p.completed = StatusCount("completed")
        /\ p.inProgress = StatusCount("in_progress")
        /\ p.blocked = StatusCount("blocked")
        /\ p.skipped = StatusCount("skipped")
        /\ p.completed + p.inProgress + p.blocked + p.skipped <= p.total

\* A task was failed into blocked while a skipped and a pending task exist.
C3_Witness ==
    /\ ret.op = "failTask"
    /\ state.progress.blocked = 1
    /\ state.progress.skipped = 1
    /\ state.progress.total = 2

\* C5: getNextTask returns null when no task is eligible; otherwise it
\* returns the eligible task of the smallest priority rank, and among the
\* eligible tasks of that rank the first of the collection.  A critical task
\* that waits on a pending task is not eligible, so it is not returned.
C5_NextTaskByPriorityThenOrder ==
    LET t == getNextTask(state)
    IN  /\ EligibleSet = {} => t = 0
        /\ EligibleSet # {} =>
              /\ t \in EligibleSet
              /\ \A j \in EligibleSet :
                    \/ Rank(t) < Rank(j)
                    \/ Rank(t) = Rank(j) /\ t <= j

\* The first task of the collection is critical but waits on a pending high
\* task; two eligible high tasks follow and the first of them is returned.
C5_Witness ==
    LET t == getNextTask(state)
    IN  /\ t = 2
        /\ Tasks[1].priority = "critical" /\ Tasks[1].status = "pending"
        /\ \E d \in TaskIdx :
              /\ Tasks[d].id \in Tasks[1].dependencies
              /\ Tasks[d].status = "pending" /\ Tasks[d].priority = "high"
        /\ \E j \in EligibleSet : j > t /\ Rank(j) = Rank(t)

\* The reference procedure of C6 over the eligible tasks E.  Agents are
\* visited in the order in which their first eligible task occurs in the
\* collection.
FirstOf(E, agent) ==
    CHOOSE i \in E :
        /\ Tasks[i].agent = agent
        /\ \A j \in E : Tasks[j].agent = agent => i <= j

Claimed(selected) == UNION {Tasks[selected[k]].outputs : k \in 1..Len(selected)}

RECURSIVE ReferenceBatch(_, _, _, _)
ReferenceBatch(E, agents, selected, maxTasks) ==
    IF agents = {} \/ ~(Len(selected) < maxTasks) THEN selected
    ELSE LET agent == CHOOSE a \in agents :
                          \A b \in agents : FirstOf(E, a) <= FirstOf(E, b)
             claimed == Claimed(selected)
             group == {i \in E : /\ Tasks[i].agent = agent
                                 /\ Tasks[i].outputs \cap claimed = {}}
         IN  IF group = {}
             THEN ReferenceBatch(E, agents \ {agent}, selected, maxTasks)
             ELSE LET best == CHOOSE i \in group :
                                  \A j \in group :
                                      \/ Rank(i) < Rank(j)
                                      \/ Rank(i) = Rank(j) /\ i <= j
                  IN  ReferenceBatch(E, agents \ {agent},
                                     Append(selected, best), maxTasks)

\* C6: for every maxTasks, getParallelizableTasks returns what the reference
\* procedure returns (agent groups in first-encountered order, at most one
\* task per group, the highest-priority one without an output conflict, ties
\* by collection order, until maxTasks are selected).  Hence when the
\* eligible tasks are k <= maxTasks tasks of pairwise distinct agents with
\* pairwise disjoint outputs, all of them are returned.
C6_ParallelBatchIsReference ==
    LET E == EligibleSet
        agents == {Tasks[i].agent : i \in E}
        distinct == \A i, j \in E :
                        i # j => /\ Tasks[i].agent # Tasks[j].agent
                                 /\ Tasks[i].outputs \cap Tasks[j].outputs = {}
    IN  \A n \in BatchSizes :
            LET selected == getParallelizableTasks(state, n)
            IN  /\ selected = ReferenceBatch(E, agents, <<>>, n)
                /\ (Cardinality(E) <= n /\ distinct) => Range(selected) = E

\* The second group's first task conflicts with the task selected from the
\* first group, so the group's next task is selected instead.
C6_Witness ==
    LET selected == getParallelizableTasks(state, 3)
    IN  /\ Len(selected) = 2
        /\ \E i \in EligibleSet :
              /\ Tasks[i].agent = Tasks[selected[2]].agent
              /\ i < selected[2]
              /\ Rank(i) <= Rank(selected[2])
              /\ Tasks[i].outputs \cap Tasks[selected[1]].outputs # {}

----------------------------------------------------------------------------
(* Properties of the driver loop (SpecDriver, SpecParallel) *)

History == state.history

FailCount(taskId) ==
    Cardinality({k \in 1..Len(History) :
                    History[k].action = "task_failed" /\ History[k].taskId = taskId})

BlockerCount(taskId) ==
    Cardinality({k \in 1..Len(state.blockers) : state.blockers[k].taskId = taskId})

\* C4: a task with maxAttempts = m >= 1 that is started and failed again and
\* again is pending after each of its first m-1 failures and blocked exactly
\* at the m-th, not before; it then has attempts = m and one Blocker entry.
C4_BlockedExactlyAtMaxAttempts ==
    \A i \in TaskIdx :
        LET t == Tasks[i]
            failures == FailCount(t.id)
        IN  /\ failures <= t.maxAttempts
            /\ failures < t.maxAttempts =>
                  /\ t.status # "blocked"
                  /\ BlockerCount(t.id) = 0
                  /\ (ret.op = "failTask" /\ ret.arg = t.id) => t.status = "pending"
            /\ failures = t.maxAttempts =>
                  /\ t.status = "blocked"
                  /\ t.attempts = t.maxAttempts
                  /\ BlockerCount(t.id) = 1

\* The task with maxAttempts = 3 has failed three times.
C4_Witness ==
    \E i \in TaskIdx :
        /\ Tasks[i].maxAttempts = 3
        /\ FailCount(Tasks[i].id) = 3
        /\ Tasks[i].status = "blocked"
        /\ ret.op = "failTask"

\* C9: under the driver, every task that is in progress or completed has all
\* of its dependencies completed.
C9_NoTaskRunsBeforeItsDependencies ==
    \A i \in TaskIdx :
        Tasks[i].status \in {"in_progress", "completed"} =>
            \A depId \in Tasks[i].dependencies :
                \E j \in TaskIdx : Tasks[j].id = depId /\ Tasks[j].status = "completed"

\* A task with a dependency has been started after its dependency was
\* completed, while a task that failed before waits for its retry.
C9_Witness ==
    /\ ret.op = "startTask"
    /\ \E i \in TaskIdx :
          Tasks[i].status = "in_progress" /\ Tasks[i].dependencies # {}
    /\ \E i \in TaskIdx :
          Tasks[i].status = "pending" /\ Tasks[i].attempts > 0

\* C10 as claimed: the number of tasks in progress never exceeds
\* config.maxParallelTasks when the driver starts every batch that
\* getParallelizableTasks(state, config.maxParallelTasks) returns.
C10_InProgressWithinMaxParallelTasks ==
    StatusCount("in_progress") <= state.config.maxParallelTasks

----------------------------------------------------------------------------
(* Properties of checkpoints (Spec) *)

Statuses(tasks) == [i \in 1..Len(tasks) |-> tasks[i].status]

\* C7: a restoreCheckpoint of the id that a createCheckpoint returned yields
\* a state whose phase and task statuses are those of the state the
\* checkpoint was created in, whatever was started, completed, failed, added
\* or transitioned since (atCapture holds the state of the latest
\* createCheckpoint that returned the id).
C7_RestoreYieldsCapturedState ==
    (ret.op = "restoreCheckpoint" /\ ret.value = "state") =>
        /\ state.phase = atCapture[ret.arg].phase
        /\ Statuses(state.tasks) = atCapture[ret.arg].statuses

\* A checkpoint was restored although a later checkpoint exists whose
\* snapshot has other task statuses: the tasks changed after the capture.
C7_Witness ==
    /\ ret.op = "restoreCheckpoint" /\ ret.value = "state"
    /\ Len(state.tasks) > 0
    /\ \E id \in DOMAIN checkpointFiles :
          /\ id # ret.arg
          /\ Statuses(checkpointFiles[id].tasks) # Statuses(state.tasks)

\* C8 as claimed: a snapshot stored under a checkpoint id is never
\* overwritten or removed by a later operation.
C8_SnapshotsImmutable ==
    [][\A id \in DOMAIN checkpointFiles :
          /\ id \in DOMAIN checkpointFiles'
          /\ checkpointFiles'[id] = checkpointFiles[id]]_vars

----------------------------------------------------------------------------
(* Properties of the retry policy (SpecDriver) *)

\* C11 as claimed: the retry budget is config.maxRetries; a task that
\* failTask has just handled is pending while it has made fewer than
\* config.maxRetries attempts, and blocked with a Blocker record once it has
\* made that many.
C11_RetryBudgetIsMaxRetries ==
    (ret.op = "failTask" /\ FindTask(state, ret.arg) # 0) =>
        LET t == Tasks[FindTask(state, ret.arg)]
            r == state.config.maxRetries
        IN  /\ t.attempts < r => t.status = "pending"
            /\ t.attempts >= r => (t.status = "blocked" /\ BlockerCount(t.id) >= 1)

BlockersOf(st, taskId) == SelectSeq(st.blockers, LAMBDA b : b.taskId = taskId)

\* C12: under the driver, a blocked task is returned neither by getNextTask
\* nor by getParallelizableTasks (for any maxTasks), in the state it is
\* blocked in and in the state after any further step, and no step changes
\* its status, its attempts counter or its Blocker records.
C12_BlockedNeverRetried ==
    [][\A i \in TaskIdx :
          Tasks[i].status = "blocked" =>
              /\ getNextTask(state) # i
              /\ getNextTask(state') # i
              /\ \A n \in BatchSizes :
                    /\ i \notin Range(getParallelizableTasks(state, n))
                    /\ i \notin Range(getParallelizableTasks(state', n))
              /\ state'.tasks[i].status = "blocked"
              /\ state'.tasks[i].attempts = Tasks[i].attempts
              /\ BlockersOf(state', Tasks[i].id) = BlockersOf(state, Tasks[i].id)]_vars

\* While one task is blocked, with its Blocker record, the driver has gone
\* on and started another task that had failed before.
C12_Witness ==
    /\ ret.op = "startTask"
    /\ \E i \in TaskIdx :
          /\ Tasks[i].status = "blocked"
          /\ BlockerCount(Tasks[i].id) = 1
          /\ ret.arg # Tasks[i].id
    /\ \E j \in TaskIdx : Tasks[j].status = "in_progress" /\ Tasks[j].attempts > 1

----------------------------------------------------------------------------
(* Properties of the task lifecycle under any call sequence (SpecLifecycle) *)

LifecycleOps == {"startTask", "completeTask", "failTask"}

StateMachineSteps ==
    {<<"pending", "in_progress">>, <<"in_progress", "completed">>,
     <<"in_progress", "pending">>, <<"in_progress", "blocked">>}

\* C13 as claimed: every status change made by startTask, completeTask or
\* failTask is pending->in_progress, in_progress->completed,
\* in_progress->pending or in_progress->blocked, and a completed, blocked or
\* skipped task is never changed by a lifecycle operation.
C13_StatusChangesFollowStateMachine ==
    [][ret'.op \in LifecycleOps =>
          \A i \in TaskIdx :
              LET from == Tasks[i].status
                  to == state'.tasks[i].status
              IN  /\ from # to => <<from, to>> \in StateMachineSteps
                  /\ from \in {"completed", "blocked", "skipped"} =>
                        state'.tasks[i] = Tasks[i]]_vars

PointerCount(taskId) ==
    Cardinality({k \in 1..Len(state.currentTasks) : state.currentTasks[k].id = taskId})

InProgressCount(taskId) ==
    Cardinality({i \in TaskIdx : Tasks[i].id = taskId /\ Tasks[i].status = "in_progress"})

\* C14 as claimed: after any sequence of lifecycle calls, currentTasks holds
\* exactly one pointer for each task in progress and none for any other
\* task, and its length is progress.inProgress.
C14_CurrentTasksAreTasksInProgress ==
    /\ \A k \in 1..Len(state.currentTasks) :
          \E i \in TaskIdx : Tasks[i].id = state.currentTasks[k].id
    /\ \A i \in TaskIdx : PointerCount(Tasks[i].id) = InProgressCount(Tasks[i].id)
    /\ Len(state.currentTasks) = state.progress.inProgress

\* C15: a startTask, completeTask or failTask call whose id matches no task
\* returns null and leaves the whole state (tasks, currentTasks, progress,
\* blockers, history and all the rest) as it was.
C15_UnknownIdIsNoOp ==
    [][(/\ ret'.op \in LifecycleOps
        /\ \A i \in TaskIdx : Tasks[i].id # ret'.arg) =>
          /\ state' = state
          /\ ret'.value = Null]_vars

\* A call with the id of no task has returned null while a task was in
\* progress and another one pending.
C15_Witness ==
    /\ ret.op \in LifecycleOps
    /\ ret.arg = "T9"
    /\ ret.value = Null
    /\ \E i \in TaskIdx : Tasks[i].status = "in_progress"
    /\ \E i \in TaskIdx : Tasks[i].status = "pending"

----------------------------------------------------------------------------
(* The phase state machine: transitionPhase with any target, checkpoints   *)
(* taken and restored in between                                           *)

NextPhase ==
    \/ calls < MaxPhaseCalls /\ \E newPhase \in PhaseSet : TransitionPhase(newPhase)
    \/ calls < MaxPhaseCalls /\ \E gitCommit \in GitCommits : CreateCheckpoint(gitCommit)
    \/ calls < MaxPhaseCalls /\ \E checkpointId \in CheckpointIds : RestoreCheckpoint(checkpointId)

SpecPhase == Init /\ [][NextPhase]_vars

PhaseIndex(p) == CHOOSE i \in 1..Len(Phase) : Phase[i] = p

\* C16: transitionPhase accepts every target from every phase; after the
\* call phase is the target, the target's status is in_progress, the
\* previous phase's status is complete when it is not the target, and the
\* history is the old one with one phase_transition entry {from, to} appended.
C16_TransitionPhaseAcceptsAnyTarget ==
    [][ret'.op = "transitionPhase" =>
          LET previous == state.phase
              target == ret'.arg
          IN  /\ state'.phase = target
              /\ state'.phases[target].status = "in_progress"
              /\ previous # target => state'.phases[previous].status = "complete"
              /\ state'.history =
                    Append(state.history,
                           [action |-> "phase_transition", agent |-> Undefined,
                            taskId |-> Undefined,
                            details |-> [from |-> previous, to |-> target]])]_vars

\* Three transitions were made; one skipped forward to testing and the last
\* one went from testing back to ideation.
C16_Witness ==
    /\ ret.op = "transitionPhase"
    /\ state.phase = "ideation"
    /\ state.phases["testing"].status = "complete"
    /\ state.phases["specification"].status = "pending"
    /\ Len(state.history) = 4

\* C17 as claimed: the phase only moves from a phase to its immediate
\* successor, complete is terminal, and only restoreCheckpoint moves the
\* phase backward.
C17_PhaseOrderIsLinear ==
    [][(state'.phase # state.phase /\ ret'.op # "restoreCheckpoint") =>
          /\ state.phase # "complete"
          /\ PhaseIndex(state'.phase) = PhaseIndex(state.phase) + 1]_vars

----------------------------------------------------------------------------
(* Persistence: load and save of project.json next to the operations that  *)
(* change the state in memory.  A session starts on the project.json that  *)
(* an earlier session, a hook or an editor left behind, and addTasks is    *)
(* handed tasks that were never validated.                                 *)

\* project.json before the first call: none, the document initialize wrote,
\* the same with a phases map of two entries, with an empty phases map, and
\* with a phase that PhaseSchema does not know
StoredFiles ==
    LET doc == JSONStringify(initialize(DefaultConfig))
    IN  {<<>>,
         <<doc>>,
         <<[doc EXCEPT !.phases =
               [p \in {"ideation", "specification"} |-> doc.phases[p]]]>>,
         <<[doc EXCEPT !.phases = [p \in {} |-> doc.phases[p]]]>>,
         <<[doc EXCEPT !.phase = "review"]>>}

\* Tasks handed to addTasks: the second one has a status that
\* TaskStatusSchema does not know
StoragePool ==
    {NewTask("T1", "pending", "high", "backend-dev", {}, {"src/app.ts"}, 2),
     NewTask("T2", "done", "high", "backend-dev", {}, {"src/db.ts"}, 2)}

InitStorage ==
    \E file \in StoredFiles :
        /\ state = initialize(DefaultConfig)
        /\ projectFile = file
        /\ checkpointFiles = [id \in {} |-> <<>>]
        /\ ret = [op |-> "initialize", arg |-> Undefined, value |-> Undefined]
        /\ calls = 0
        /\ atCapture = [id \in {} |-> <<>>]
        /\ tasksFile = <<>>
        /\ hookState = <<>>

\* A load that throws leaves the caller with the state it had
Load ==
    LET r == load(projectFile)
    IN  /\ ret' = [op |-> "load", arg |-> Undefined,
                   value |-> IF r.error = Null THEN "state" ELSE r.error]
        /\ state' = IF r.error = Null THEN r.state ELSE state
        /\ calls' = calls + 1
        /\ UNCHANGED <<projectFile, checkpointFiles, atCapture, tasksFile, hookState>>

Save ==
    LET r == save(state)
    IN  /\ ret' = [op |-> "save", arg |-> Undefined,
                   value |-> IF r.ok THEN Undefined ELSE "ValidationError"]
        /\ projectFile' = IF r.ok THEN r.file ELSE projectFile
        /\ calls' = calls + 1
        /\ UNCHANGED <<state, checkpointFiles, atCapture, tasksFile, hookState>>

NextStorage ==
    \/ calls < MaxStorageCalls /\ Load
    \/ calls < MaxStorageCalls /\ Save
    \/ calls < MaxStorageCalls /\ \E task \in StoragePool : AddTasks(<<task>>)
    \/ calls < MaxStorageCalls /\ \E newPhase \in PhaseTargets : TransitionPhase(newPhase)
    \/ calls < MaxStorageCalls /\ \E gitCommit \in GitCommits : CreateCheckpoint(gitCommit)
    \/ calls < MaxStorageCalls /\ \E checkpointId \in CheckpointIds : RestoreCheckpoint(checkpointId)

SpecStorage == InitStorage /\ [][NextStorage]_vars

\* C18 as claimed: in every state reached from initialize by the operations
\* and in every state accepted by load, phases has an entry for each of the
\* eight phases and state.phase is a key of phases.
C18_PhasesMapIsComplete ==
    /\ DOMAIN state.phases = PhaseSet
    /\ state.phase \in DOMAIN state.phases

\* C19: a save of a state that the schema rejects reports a validation
\* error and leaves project.json (there or not there) exactly as it was;
\* whenever save changes project.json, the new document is one that the
\* schema accepts.
C19_InvalidStateIsNotSaved ==
    [][ret'.op = "save" =>
          /\ ~SchemaOk(JSONStringify(state)) =>
                /\ ret'.value = "ValidationError"
                /\ projectFile' = projectFile
          /\ projectFile' # projectFile => SchemaOk(projectFile'[1])]_vars

\* save has rejected a state with a task of unknown status; project.json
\* still holds the valid document of an earlier save, which differs from
\* the state in memory.
C19_Witness ==
    /\ ret.op = "save"
    /\ ret.value = "ValidationError"
    /\ \E i \in TaskIdx : Tasks[i].status \notin TaskStatus
    /\ projectFile # <<>>
    /\ SchemaOk(projectFile[1])
    /\ Len(projectFile[1].history) > 1

\* C20 as claimed: every document the core has written passed validation
\* before: each checkpoint snapshot is accepted by the schema and by a
\* restoreCheckpoint of its id, and so is project.json after a save or a
\* restoreCheckpoint that succeeded.
C20_WrittenDocumentsAreValid ==
    /\ \A id \in DOMAIN checkpointFiles :
          /\ SchemaOk(checkpointFiles[id])
          /\ restoreCheckpoint(checkpointFiles, id).error = Null
    /\ (ret.op = "save" /\ ret.value = Undefined) => SchemaOk(projectFile[1])
    /\ (ret.op = "restoreCheckpoint" /\ ret.value = "state") => SchemaOk(projectFile[1])

----------------------------------------------------------------------------
(* Properties of load and of restoreCheckpoint (SpecStorage) *)

C23_FailedRestoreChangesNothing ==
    [][ret'.op = "restoreCheckpoint" =>
          /\ checkpointFiles' = checkpointFiles
          /\ ret'.arg \notin DOMAIN checkpointFiles =>
                /\ ret'.value = "NotFound"
                /\ projectFile' = projectFile
                /\ state' = state
          /\ (/\ ret'.arg \in DOMAIN checkpointFiles
              /\ ~SchemaOk(checkpointFiles[ret'.arg])) =>
                /\ ret'.value = "ValidationError"
                /\ projectFile' = projectFile
                /\ state' = state]_vars

\* A restore of a snapshot taken from an invalid state has failed; the
\* snapshot and a valid project.json are still there.
C23_Witness ==
    /\ ret.op = "restoreCheckpoint"
    /\ ret.value = "ValidationError"
    /\ ret.arg \in DOMAIN checkpointFiles
    /\ projectFile # <<>>
    /\ SchemaOk(projectFile[1])

\* C24: after a restoreCheckpoint that succeeded, load() returns a state
\* equal to the one restoreCheckpoint returned, and the last history entry
\* of that state is checkpoint_restored with the restored id.
C24_RestoredStateIsPersisted ==
    [][(ret'.op = "restoreCheckpoint" /\ ret'.value = "state") =>
          /\ load(projectFile').error = Null
          /\ load(projectFile').state = state'
          /\ state'.history[Len(state'.history)] =
                [action |-> "checkpoint_restored", agent |-> Undefined,
                 taskId |-> Undefined,
                 details |-> [checkpointId |-> ret'.arg]]]_vars

\* The first checkpoint was restored after the state had moved on to
\* another phase, in which a second checkpoint was taken.
C24_Witness ==
    /\ ret.op = "restoreCheckpoint"
    /\ ret.value = "state"
    /\ \E id \in DOMAIN checkpointFiles :
          /\ id # ret.arg
          /\ checkpointFiles[id].phase # state.phase

----------------------------------------------------------------------------
(* The task document tasks.json: loadTasks and saveTasks, next to addTasks *)

\* All tasks of a task document, epic by epic and story by story
TasksOfFile(doc) ==
    Range(doc.tasks) \cup
    UNION {UNION {Range(doc.epics[e].stories[s].tasks) :
                     s \in DOMAIN doc.epics[e].stories} :
              e \in DOMAIN doc.epics}

\* TaskFileSchema accepts the document
TaskFileSchemaOk(doc) == \A t \in TasksOfFile(doc) : TaskSchemaOk(t)

\* loadTasks(): null when tasks.json does not exist, else the parsed
\* document or the error thrown
loadTasks(file) ==
    IF file = <<>> THEN [error |-> Null, value |-> Null]
    ELSE IF ~TaskFileSchemaOk(file[1]) THEN [error |-> "ValidationError", value |-> Null]
    ELSE [error |-> Null, value |-> "tasks"]

\* saveTasks(tasks): the document written to tasks.json, or a ValidationError
saveTasks(doc) ==
    IF TaskFileSchemaOk(doc)
    THEN [ok |-> TRUE, file |-> <<doc>>]
    ELSE [ok |-> FALSE, file |-> <<>>]

\* A task document of one epic with one story that holds the given tasks,
\* as JSON: an optional field that is undefined is not there
TaskDocument(tasks) ==
    LET json == [i \in 1..Len(tasks) |->
                    [tasks[i] EXCEPT !.actualMinutes = DropUndefined(@)]]
    IN  [epics |-> <<[id |-> "E1",
                      stories |-> <<[id |-> "S1", tasks |-> json]>>]>>,
         tasks |-> json]

\* The documents handed to saveTasks; the last one holds a task whose
\* status TaskStatusSchema does not know
TaskDocuments ==
    {TaskDocument(<<>>),
     TaskDocument(<<NewTask("T1", "pending", "high", "backend-dev", {}, {"src/app.ts"}, 2)>>),
     TaskDocument(<<NewTask("T2", "done", "high", "backend-dev", {}, {"src/db.ts"}, 2)>>)}

\* tasks.json before the first call: none, or whatever a planner wrote
StoredTaskFiles == {<<>>} \cup {<<doc>> : doc \in TaskDocuments}

InitTaskFile ==
    \E file \in StoredTaskFiles :
        /\ state = initialize(DefaultConfig)
        /\ projectFile = save(initialize(DefaultConfig)).file
        /\ checkpointFiles = [id \in {} |-> <<>>]
        /\ ret = [op |-> "initialize", arg |-> Undefined, value |-> Undefined]
        /\ calls = 0
        /\ atCapture = [id \in {} |-> <<>>]
        /\ tasksFile = file
        /\ hookState = <<>>

LoadTasks ==
    LET r == loadTasks(tasksFile)
    IN  /\ ret' = [op |-> "loadTasks", arg |-> Undefined,
                   value |-> IF r.error = Null THEN r.value ELSE r.error]
        /\ calls' = calls + 1
        /\ UNCHANGED <<state, projectFile, checkpointFiles, atCapture, tasksFile, hookState>>

SaveTasks(doc) ==
    LET r == saveTasks(doc)
    IN  /\ ret' = [op |-> "saveTasks", arg |-> Undefined,
                   value |-> IF r.ok THEN Undefined ELSE "ValidationError"]
        /\ tasksFile' = IF r.ok THEN r.file ELSE tasksFile
        /\ calls' = calls + 1
        /\ UNCHANGED <<state, projectFile, checkpointFiles, atCapture, hookState>>

NextTaskFile ==
    \/ calls < MaxTaskFileCalls /\ LoadTasks
    \/ calls < MaxTaskFileCalls /\ \E doc \in TaskDocuments : SaveTasks(doc)
    \/ calls < MaxTaskFileCalls /\ \E task \in PlanPool : AddTasks(<<task>>)

SpecTaskFile == InitTaskFile /\ [][NextTaskFile]_vars

\* C22 as claimed: loadTasks fails with the not-found error when tasks.json
\* does not exist (it returns no absent value) and with the validation
\* error when the schema rejects the document; saveTasks writes a document
\* only after the schema accepted it and leaves tasks.json alone otherwise.
C22_TaskFileContractAsProjectFile ==
    [][/\ ret'.op = "loadTasks" =>
             /\ tasksFile' = tasksFile
             /\ tasksFile = <<>> => ret'.value = "NotFound"
             /\ (tasksFile # <<>> /\ ~TaskFileSchemaOk(tasksFile[1])) =>
                   ret'.value = "ValidationError"
             /\ (tasksFile # <<>> /\ TaskFileSchemaOk(tasksFile[1])) =>
                   ret'.value = "tasks"
       /\ ret'.op = "saveTasks" =>
             /\ ret'.value = "ValidationError" => tasksFile' = tasksFile
             /\ tasksFile' # tasksFile => TaskFileSchemaOk(tasksFile'[1])]_vars

----------------------------------------------------------------------------
(* Properties of the checkpoint round trip and of the history (Spec) *)

\* C25 as claimed: the history of the state that restoreCheckpoint returns
\* is the history at the moment the checkpoint was created followed by
\* exactly two entries, checkpoint_created and then checkpoint_restored,
\* and its checkpoints list ends with the metadata of the restored id.
C25_RoundTripAppendsTwoEntries ==
    (ret.op = "restoreCheckpoint" /\ ret.value = "state") =>
        LET before == atCapture[ret.arg].history
            n == Len(before)
        IN  /\ Len(History) = n + 2
            /\ SubSeq(History, 1, n) = before
            /\ History[n + 1].action = "checkpoint_created"
            /\ History[n + 2].action = "checkpoint_restored"
            /\ state.checkpoints[Len(state.checkpoints)].id = ret.arg

IsPrefix(s, t) == Len(s) <= Len(t) /\ SubSeq(t, 1, Len(s)) = s

\* C29, amended: under startTask, completeTask, failTask, addTasks,
\* transitionPhase, addDecision and createCheckpoint the history before the
\* call is a prefix of the history after it.  restoreCheckpoint replaces the
\* history: after a restore that succeeded it is the history stored in the
\* snapshot followed by one checkpoint_restored entry, and a restore that
\* failed leaves it as it was.
C29_HistoryAppendOnlyExceptRestore ==
    [][/\ ret'.op # "restoreCheckpoint" => IsPrefix(state.history, state'.history)
       /\ (ret'.op = "restoreCheckpoint" /\ ret'.value = "state") =>
             /\ Len(state'.history) = Len(checkpointFiles[ret'.arg].history) + 1
             /\ SubSeq(state'.history, 1, Len(state'.history) - 1) =
                   SchemaParse(checkpointFiles[ret'.arg]).history
             /\ state'.history[Len(state'.history)].action = "checkpoint_restored"
       /\ (ret'.op = "restoreCheckpoint" /\ ret'.value # "state") =>
             state'.history = state.history]_vars

\* A decision was logged and captured by a later checkpoint; the restore of
\* an earlier checkpoint then returned a history without that entry.
C29_Witness ==
    /\ ret.op = "restoreCheckpoint"
    /\ ret.value = "state"
    /\ \E id \in DOMAIN checkpointFiles :
          /\ Len(checkpointFiles[id].history) >= Len(History)
          /\ \E k \in 1..Len(checkpointFiles[id].history) :
                checkpointFiles[id].history[k].action = "decision_made"
          /\ \A k \in 1..Len(History) : History[k].action # "decision_made"

\* C29 as claimed: under every operation of the core, restoreCheckpoint
\* included, the history before the call is a prefix of the history after it.
C29_HistoryAppendOnly ==
    [][IsPrefix(state.history, state'.history)]_vars

----------------------------------------------------------------------------
(* Task ids (SpecLifecycle) *)

\* C30 as claimed: in every state reached through addTasks, no two tasks of
\* the collection have the same id.
C30_TaskIdsUnique ==
    \A i, j \in TaskIdx : Tasks[i].id = Tasks[j].id => i = j

----------------------------------------------------------------------------
(* Two writers of project.json: the driver, which works on the state it    *)
(* holds and saves it, and the post-task hook, which loads, recomputes and *)
(* saves.  The hook's load and save are steps of their own, so the driver  *)
(* may save between them.                                                  *)

\* Configurations with a checkpoint after every task and with frequency 0
FrequencyConfigs ==
    {[DefaultConfig EXCEPT !.checkpointFrequency = 1],
     [DefaultConfig EXCEPT !.checkpointFrequency = 0]}

\* A project.json in which a task was marked completed by hand: progress
\* still counts no completed task
StaleDocument(config) ==
    LET st == addTasks(initialize(config),
                       <<NewTask("T3", "pending", "low", "test-engineer", {}, {}, 1)>>)
    IN  JSONStringify([st EXCEPT !.tasks[1].status = "completed"])

InitHook ==
    \E config \in FrequencyConfigs :
        \E file \in {save(initialize(config)).file, <<StaleDocument(config)>>} :
            /\ state = initialize(config)
            /\ projectFile = file
            /\ checkpointFiles = [id \in {} |-> <<>>]
            /\ ret = [op |-> "initialize", arg |-> Undefined, value |-> Undefined]
            /\ calls = 0
            /\ atCapture = [id \in {} |-> <<>>]
            /\ tasksFile = <<>>
            /\ hookState = <<>>

\* loadState(); without a project.json the hook exits at once
HookLoad ==
    /\ hookState = <<>>
    /\ hookState' = projectFile
    /\ ret' = [op |-> "postTaskLoad", arg |-> Undefined, value |-> Undefined]
    /\ calls' = calls + 1
    /\ UNCHANGED <<state, projectFile, checkpointFiles, atCapture, tasksFile>>

\* The rest of main().  ret.arg tells whether project.json still was the
\* document the hook had loaded.
HookSave ==
    /\ hookState # <<>>
    /\ LET r == postTaskMain(hookState[1])
       IN  /\ projectFile' = saveState(r.doc)
           /\ ret' = [op |-> "postTaskHook",
                      arg |-> IF projectFile = hookState THEN "fresh" ELSE "stale",
                      value |-> IF r.recommended THEN "recommended" ELSE "none"]
    /\ hookState' = <<>>
    /\ calls' = calls + 1
    /\ UNCHANGED <<state, checkpointFiles, atCapture, tasksFile>>

NextHook ==
    \/ calls < MaxHookCalls /\ \E task \in PlanPool : AddTasks(<<task>>)
    \/ calls < MaxHookCalls /\ DriverStartNext
    \/ calls < MaxHookCalls /\ DriverCompleteTask
    \/ calls < MaxHookCalls /\ \E gitCommit \in GitCommits : CreateCheckpoint(gitCommit)
    \/ calls < MaxHookCalls /\ \E checkpointId \in CheckpointIds : RestoreCheckpoint(checkpointId)
    \/ calls < MaxHookCalls /\ Load
    \/ calls < MaxHookCalls /\ Save
    \/ calls < MaxHookCalls /\ HookLoad
    \/ calls < MaxHookCalls /\ HookSave

SpecHook == InitHook /\ [][NextHook]_vars

----------------------------------------------------------------------------
(* Properties of shouldCheckpoint and of the post-task hook (SpecHook) *)

CompletedAtLastCheckpoint(st) ==
    IF Len(st.checkpoints) > 0
    THEN st.checkpoints[Len(st.checkpoints)].tasksCompleted
    ELSE 0

\* C26 as claimed: shouldCheckpoint is true exactly when progress.completed
\* minus the tasksCompleted of the last checkpoint (0 without a checkpoint)
\* is at least config.checkpointFrequency (5 without a config), for every
\* frequency, 0 included.
C26_ShouldCheckpointAtFrequency ==
    LET frequency == IF "config" \in DOMAIN state
                     THEN state.config.checkpointFrequency
                     ELSE 5
    IN  shouldCheckpoint(state) <=>
            state.progress.completed - CompletedAtLastCheckpoint(state) >= frequency

\* The schema-valid documents at hand: project.json, and the state in memory
\* as save would write it
ValidDocuments ==
    {doc \in Range(projectFile) \cup {JSONStringify(state)} : SchemaOk(doc)}

\* C27, amended: for every schema-valid document, the Progress record the
\* hook computes is the one updateProgress computes for the parsed state,
\* and the hook recommends a checkpoint exactly when shouldCheckpoint is
\* true for the state with that recomputed progress.
C27_HookMirrorsCoreAfterRecompute ==
    \A doc \in ValidDocuments :
        LET st == SchemaParse(doc)
            hook == postTaskMain(doc)
        IN  /\ hook.doc.progress = updateProgress(st).progress
            /\ hook.recommended <=> shouldCheckpoint(updateProgress(st))

\* The hook has run on a document whose stored progress was behind its
\* tasks and has recommended a checkpoint, which shouldCheckpoint would not
\* have done for the document as stored; the driver holds a state with a
\* completed task for which shouldCheckpoint is true as well.
C27_Witness ==
    /\ ret.op = "postTaskHook"
    /\ ret.value = "recommended"
    /\ projectFile[1].progress.completed = 1
    /\ state.progress.completed = 1
    /\ shouldCheckpoint(state)

\* C27 as claimed: for every schema-valid document, the hook's Progress
\* record is the one of updateProgress and the hook recommends a checkpoint
\* exactly when shouldCheckpoint is true for that state.
C27_HookMirrorsCore ==
    \A doc \in ValidDocuments :
        LET st == SchemaParse(doc)
            hook == postTaskMain(doc)
        IN  /\ hook.doc.progress = updateProgress(st).progress
            /\ hook.recommended <=> shouldCheckpoint(st)

\* C28: whichever writer saves, project.json becomes that writer's copy.
\* After a save of the driver, load() yields the state the driver holds;
\* after the save of the hook, project.json is the document the hook
\* loaded, with progress recomputed and the hook's one history entry
\* appended.  Nothing of what project.json held before the save is merged
\* in: an entry the other writer saved in between is not there.
C28_LastSaveWins ==
    [][/\ (ret'.op = "save" /\ ret'.value = Undefined) =>
             /\ load(projectFile').state = state
             /\ Len(projectFile'[1].history) = Len(state.history)
       /\ ret'.op = "postTaskHook" =>
             /\ projectFile'[1] = postTaskMain(hookState[1]).doc
             /\ Len(projectFile'[1].history) = Len(hookState[1].history) + 1
             /\ SubSeq(projectFile'[1].history, 1, Len(hookState[1].history)) =
                   hookState[1].history]_vars

\* The hook has saved a copy it had loaded before the driver saved a state
\* with a task: project.json has the hook's entry and not the driver's task.
C28_Witness ==
    /\ ret.op = "postTaskHook"
    /\ ret.arg = "stale"
    /\ Len(state.tasks) > 0
    /\ Len(projectFile[1].tasks) = 0
    /\ projectFile[1].history[Len(projectFile[1].history)].action =
          "task_delegation_completed"

----------------------------------------------------------------------------
(* A session with both hooks: project.json carries the session status that *)
(* the commands keep in it; the post-task hook runs after each delegation  *)
(* and the stop hook when the session ends.                                *)

\* project.json at the start: the document initialize wrote, without a
\* session status or with one
SessionStatuses == {"running", "paused", "stopped"}

SessionDocuments ==
    LET doc == JSONStringify(initialize(DefaultConfig))
    IN  {doc} \cup
        {[k \in DOMAIN doc \cup {"status"} |->
             IF k = "status" THEN status ELSE doc[k]] : status \in SessionStatuses}

InitSession ==
    \E doc \in SessionDocuments :
        /\ state = initialize(DefaultConfig)
        /\ projectFile = <<doc>>
        /\ checkpointFiles = [id \in {} |-> <<>>]
        /\ ret = [op |-> "initialize", arg |-> Undefined, value |-> Undefined]
        /\ calls = 0
        /\ atCapture = [id \in {} |-> <<>>]
        /\ tasksFile = <<>>
        /\ hookState = <<>>

\* main() of the stop hook; ret.value tells whether it wrote anything
StopHook ==
    /\ IF projectFile # <<>> /\ sessionActive(projectFile[1])
       THEN LET r == stopMain(projectFile[1])
            IN  /\ checkpointFiles' = WriteFile(checkpointFiles, StopCheckpointId, r.checkpoint)
                /\ projectFile' = saveState(r.doc)
                /\ ret' = [op |-> "stopHook", arg |-> Undefined, value |-> "stopped"]
       ELSE /\ UNCHANGED <<checkpointFiles, projectFile>>
            /\ ret' = [op |-> "stopHook", arg |-> Undefined, value |-> "none"]
    /\ calls' = calls + 1
    /\ UNCHANGED <<state, atCapture, tasksFile, hookState>>

NextSession ==
    \/ calls < MaxSessionCalls /\ \E task \in PlanPool : AddTasks(<<task>>)
    \/ calls < MaxSessionCalls /\ DriverStartNext
    \/ calls < MaxSessionCalls /\ DriverCompleteTask
    \/ calls < MaxSessionCalls /\ Load
    \/ calls < MaxSessionCalls /\ Save
    \/ calls < MaxSessionCalls /\ HookLoad
    \/ calls < MaxSessionCalls /\ HookSave
    \/ calls < MaxSessionCalls /\ StopHook

SpecSession == InitSession /\ [][NextSession]_vars

\* C31 as claimed: when the document a hook has loaded from project.json is
\* one the schema accepts (a session status among its keys or not), the
\* document the post-task hook or the stop hook writes back is one the
\* schema accepts, and a load() after it succeeds.
C31_HooksWriteValidDocuments ==
    [][/\ (ret'.op = "postTaskHook" /\ SchemaOk(hookState[1])) =>
             /\ SchemaOk(projectFile'[1])
             /\ load(projectFile').error = Null
       /\ (ret'.op = "stopHook" /\ projectFile # <<>> /\ SchemaOk(projectFile[1])) =>
             /\ SchemaOk(projectFile'[1])
             /\ load(projectFile').error = Null]_vars

----------------------------------------------------------------------------
(* The planning queries and updateProgress, called by a caller that may    *)
(* call any task operation with any id; plans may repeat an id.  The state *)
(* at the start is the one initialize built or one loaded from a           *)
(* project.json whose progress is behind its tasks.                        *)

\* The maxTasks handed to getParallelizableTasks
BatchSizesAsked == {1, DefaultMaxParallelTasks}

InitPlanning ==
    \E st \in {initialize(DefaultConfig),
                SchemaParse(StaleDocument(DefaultConfig))} :
        /\ state = st
        /\ projectFile = save(initialize(DefaultConfig)).file
        /\ checkpointFiles = [id \in {} |-> <<>>]
        /\ ret = [op |-> "initialize", arg |-> Undefined, value |-> Undefined]
        /\ calls = 0
        /\ atCapture = [id \in {} |-> <<>>]
        /\ tasksFile = <<>>
        /\ hookState = <<>>

GetNextTask ==
    LET r == getNextTaskCall(state)
    IN  /\ state' = r.state
        /\ ret' = [op |-> "getNextTask", arg |-> Undefined, value |-> r.value]
        /\ calls' = calls + 1
        /\ UNCHANGED <<projectFile, checkpointFiles, atCapture, tasksFile, hookState>>

GetParallelizableTasks(maxTasks) ==
    LET r == getParallelizableTasksCall(state, maxTasks)
    IN  /\ state' = r.state
        /\ ret' = [op |-> "getParallelizableTasks", arg |-> maxTasks, value |-> r.value]
        /\ calls' = calls + 1
        /\ UNCHANGED <<projectFile, checkpointFiles, atCapture, tasksFile, hookState>>

\* ret.arg tells whether the call before this one was updateProgress too
UpdateProgress ==
    /\ state' = updateProgress(state)
    /\ ret' = [op |-> "updateProgress",
               arg |-> IF ret.op = "updateProgress" THEN "again" ELSE "first",
               value |-> Undefined]
    /\ calls' = calls + 1
    /\ UNCHANGED <<projectFile, checkpointFiles, atCapture, tasksFile, hookState>>

NextPlanning ==
    \/ calls < MaxPlanningCalls /\ \E task \in TaskPool : AddTasks(<<task>>)
    \/ calls < MaxPlanningCalls /\ \E taskId \in TaskIds : StartTask(taskId)
    \/ calls < MaxPlanningCalls /\ \E taskId \in TaskIds : CompleteTask(taskId)
    \/ calls < MaxPlanningCalls /\ \E taskId \in TaskIds, error \in Errors : FailTask(taskId, error)
    \/ calls < MaxPlanningCalls /\ GetNextTask
    \/ calls < MaxPlanningCalls /\ \E maxTasks \in BatchSizesAsked : GetParallelizableTasks(maxTasks)
    \/ calls < MaxPlanningCalls /\ UpdateProgress

SpecPlanning == InitPlanning /\ [][NextPlanning]_vars

\* The fields of the state other than the given ones are as they were
FrameExcept(keys) ==
    /\ DOMAIN state' = DOMAIN state
    /\ \A k \in DOMAIN state \ keys : state'[k] = state[k]

\* C33: updateProgress is idempotent: a second call on the state the first
\* one left yields the same Progress record (and the same state), and a call
\* changes no field of the state but progress.
C33_UpdateProgressIdempotent ==
    [][ret'.op = "updateProgress" =>
          /\ updateProgress(state').progress = state'.progress
          /\ updateProgress(state') = state'
          /\ FrameExcept({"progress"})
          /\ ret'.arg = "again" => state' = state]_vars

\* updateProgress was called twice in a row on a loaded state whose progress
\* was behind its one completed task; nothing else was called (the history
\* has its first entry only).
C33_Witness ==
    /\ ret.op = "updateProgress"
    /\ ret.arg = "again"
    /\ Len(Tasks) = 1
    /\ Len(History) = 1
    /\ state.progress.completed = 1

\* C34: startTask, completeTask and failTask on id X leave every task but
\* the first one with id X as it was, and that one keeps its place and its
\* id; of the other fields of the state only currentTasks, progress,
\* blockers and history may change.  addTasks keeps the tasks it finds, in
\* their order, in front of the new ones.  No call removes or reorders tasks.
C34_OnlyFirstMatchChanges ==
    [][/\ ret'.op \in LifecycleOps =>
             LET x == FindTask(state, ret'.arg)
             IN  /\ Len(state'.tasks) = Len(state.tasks)
                 /\ \A i \in TaskIdx :
                       /\ state'.tasks[i].id = Tasks[i].id
                       /\ i # x => state'.tasks[i] = Tasks[i]
                 /\ FrameExcept({"tasks", "currentTasks", "progress",
                                 "blockers", "history"})
       /\ ret'.op = "addTasks" =>
             /\ IsPrefix(state.tasks, state'.tasks)
             /\ Len(state'.tasks) = Len(state.tasks) + ret'.arg
             /\ FrameExcept({"tasks", "progress"})]_vars

\* A lifecycle call was made with an id that two tasks have: the first of
\* them has the new status, the second one has kept another status.
C34_Witness ==
    /\ ret.op \in LifecycleOps
    /\ \E i, j \in TaskIdx :
          /\ i < j
          /\ i = FindTask(state, ret.arg)
          /\ Tasks[j].id = ret.arg
          /\ Tasks[i].status # Tasks[j].status
          /\ Tasks[j].status = "pending"

\* C35: a call of getNextTask or of getParallelizableTasks leaves the whole
\* state as it was (the order of state.tasks, every task, currentTasks,
\* progress, history and all the rest) and writes no file.
C35_PlanningQueriesArePure ==
    [][ret'.op \in {"getNextTask", "getParallelizableTasks"} =>
          /\ state' = state
          /\ projectFile' = projectFile
          /\ checkpointFiles' = checkpointFiles
          /\ tasksFile' = tasksFile]_vars

\* getNextTask has returned a task that is not the first of the collection,
\* from a collection that is not in priority order.
C35_Witness ==
    /\ ret.op = "getNextTask"
    /\ getNextTask(state) > 1
    /\ \E i, j \in TaskIdx : i < j /\ Rank(i) > Rank(j)

----------------------------------------------------------------------------
(* getNextTask against getParallelizableTasks (SpecLifecycle) *)

\* C39 as claimed: for every maxTasks >= 1, getParallelizableTasks returns
\* a batch that is not empty exactly when getNextTask returns a task, and
\* the batch then holds the task that getNextTask returns.
C39_BatchContainsNextTask ==
    \A n \in 1..(MaxTasks + 1) :
        LET batch == getParallelizableTasks(state, n)
            t == getNextTask(state)
        IN  /\ (batch # <<>>) <=> (t # 0)
            /\ t # 0 => t \in Range(batch)

----------------------------------------------------------------------------
(* Batches started while earlier ones are running (SpecParallel) *)

\* C36 as claimed: under the driver that starts every batch returned by
\* getParallelizableTasks, and asks for the next batch while tasks of an
\* earlier one are in progress, no two tasks in progress share an output
\* identifier.
C36_NoConflictAcrossBatches ==
    \A i, j \in TaskIdx :
        (/\ i # j
         /\ Tasks[i].status = "in_progress"
         /\ Tasks[j].status = "in_progress") =>
            Tasks[i].outputs \cap Tasks[j].outputs = {}

----------------------------------------------------------------------------
(* The phase in progress (SpecPhase) *)

\* C38: after any sequence of transitionPhase calls (any targets),
\* createCheckpoint and restoreCheckpoint from initialize, exactly one
\* phase has status in_progress, and it is state.phase.
C38_OnePhaseInProgress ==
    {p \in DOMAIN state.phases : state.phases[p].status = "in_progress"} =
        {state.phase}

\* A checkpoint was restored whose state had left ideation and had made a
\* transition from a phase to that same phase.
C38_Witness ==
    /\ ret.op = "restoreCheckpoint"
    /\ ret.value = "state"
    /\ state.phase # "ideation"
    /\ state.phases["ideation"].status = "complete"
    /\ \E k \in 1..Len(History) :
          /\ History[k].action = "phase_transition"
          /\ History[k].details.from = History[k].details.to

----------------------------------------------------------------------------
(* Attempts and Blocker records under the driver (SpecDriver) *)

\* C40: under the driver (unique ids, tasks added with attempts 0 and
\* maxAttempts >= 1, only tasks returned by getNextTask or
\* getParallelizableTasks are started), every task has
\* attempts <= maxAttempts, and a task is blocked exactly when there is
\* exactly one Blocker record for its id.
C40_AttemptsBoundedOneBlocker ==
    \A i \in TaskIdx :
        /\ Tasks[i].attempts <= Tasks[i].maxAttempts
        /\ Tasks[i].status = "blocked" <=> BlockerCount(Tasks[i].id) = 1
        /\ BlockerCount(Tasks[i].id) <= 1

\* One task is blocked after its only attempt, with its one Blocker
\* record, while another task runs its second attempt of three.
C40_Witness ==
    /\ \E i \in TaskIdx :
          /\ Tasks[i].status = "blocked"
          /\ Tasks[i].attempts = Tasks[i].maxAttempts
          /\ BlockerCount(Tasks[i].id) = 1
    /\ \E j \in TaskIdx :
          /\ Tasks[j].status = "in_progress"
          /\ Tasks[j].attempts = 2
          /\ Tasks[j].maxAttempts = 3
          /\ BlockerCount(Tasks[j].id) = 0

----------------------------------------------------------------------------
(* The sequential driver loop on a plan that is in place when the loop     *)
(* starts: take the task getNextTask returns, start it, then complete or   *)
(* fail it, until getNextTask returns null.  The plan has unique ids; its  *)
(* tasks are pending or were marked skipped, with attempts 0.              *)

Plans ==
    {tasks \in SeqsUpTo(TaskPool, MaxTasks) :
        \A i, j \in 1..Len(tasks) : tasks[i].id = tasks[j].id => i = j}

\* The plan is in place and the loop has asked for its first task
InitLoop ==
    \E tasks \in Plans :
        /\ state = addTasks(initialize(DefaultConfig), tasks)
        /\ projectFile = save(initialize(DefaultConfig)).file
        /\ checkpointFiles = [id \in {} |-> <<>>]
        /\ ret = [op |-> "getNextTask", arg |-> Undefined,
                  value |-> getNextTask(addTasks(initialize(DefaultConfig), tasks))]
        /\ calls = 0
        /\ atCapture = [id \in {} |-> <<>>]
        /\ tasksFile = <<>>
        /\ hookState = <<>>

\* The head of the loop: nothing is in progress, and the task that
\* getNextTask returns is started
LoopStart ==
    /\ \A i \in TaskIdx : Tasks[i].status # "in_progress"
    /\ \E i \in TaskIdx :
          /\ i = getNextTask(state)
          /\ StartTask(Tasks[i].id)

LoopComplete == DriverCompleteTask

LoopFail == DriverFailTask

\* The body of the loop ends one way or the other
LoopFinish == LoopComplete \/ LoopFail

NextLoop ==
    \/ LoopStart
    \/ LoopComplete
    \/ LoopFail

\* The loop keeps running: it takes its next step whenever there is one
\* (every step of the loop changes the state)
SpecLoop ==
    InitLoop /\ [][NextLoop]_vars /\ WF_state(LoopStart) /\ WF_state(LoopFinish)

\* Every dependency of task i, and every dependency of those, is a task of
\* the collection that is completed
RECURSIVE DependenciesCompleted(_, _)
DependenciesCompleted(i, depth) ==
    \A depId \in Tasks[i].dependencies :
        LET d == FindTask(state, depId)
        IN  /\ d # 0
            /\ Tasks[d].status = "completed"
            /\ depth > 0 => DependenciesCompleted(d, depth - 1)

Finished(i) == i \in TaskIdx /\ Tasks[i].status \in {"completed", "blocked"}

\* C32, amended: in the driver loop, every task that is not skipped and
\* whose transitive dependencies are all completed is eventually completed
\* or blocked, whatever other tasks get blocked or are retried before it.
\* (A skipped task stays skipped: the loop never takes it.)
C32_ReadyTasksAreFinished ==
    \A i \in 1..MaxTasks :
        (/\ i \in TaskIdx
         /\ Tasks[i].status # "skipped"
         /\ DependenciesCompleted(i, MaxTasks)) ~> Finished(i)

\* A task was completed after the task it depends on had been retried and
\* completed, while another task is blocked.
C32_Witness ==
    /\ \E i \in TaskIdx :
          /\ Tasks[i].status = "completed"
          /\ Tasks[i].dependencies # {}
          /\ \E d \in TaskIdx :
                /\ Tasks[d].id \in Tasks[i].dependencies
                /\ Tasks[d].status = "completed"
                /\ Tasks[d].attempts >= 2
    /\ \E j \in TaskIdx : Tasks[j].status = "blocked"

\* C32 as claimed: every task, of any status, whose transitive
\* dependencies are all completed is eventually completed or blocked.
C32_EveryReadyTaskIsFinished ==
    \A i \in 1..MaxTasks :
        (i \in TaskIdx /\ DependenciesCompleted(i, MaxTasks)) ~> Finished(i)

\* Completed, blocked, skipped, or pending with a dependency that names no
\* task or a task that is not completed
Settled(i) ==
    \/ Tasks[i].status \in {"completed", "blocked", "skipped"}
    \/ /\ Tasks[i].status = "pending"
       /\ \E depId \in Tasks[i].dependencies :
             \/ FindTask(state, depId) = 0
             \/ Tasks[FindTask(state, depId)].status # "completed"

\* C37: the driver loop terminates: whatever the outcomes, it reaches a
\* state in which getNextTask returns null and every task is completed,
\* blocked, skipped, or pending with a dependency that is missing or not
\* completed.
C37_LoopTerminates ==
    <>(getNextTask(state) = 0 /\ \A i \in TaskIdx : Settled(i))

\* The loop has ended with one task completed, one blocked after a retry
\* and one still pending on an id that names no task.
C37_Witness ==
    /\ getNextTask(state) = 0
    /\ \A i \in TaskIdx : Settled(i)
    /\ \E i \in TaskIdx : Tasks[i].status = "completed"
    /\ \E i \in TaskIdx : Tasks[i].status = "blocked" /\ Tasks[i].attempts >= 2
    /\ \E i \in TaskIdx : Tasks[i].status = "pending" /\ "T9" \in Tasks[i].dependencies

====
